---- MODULE Spec2Model ----
(***************************************************************************)
(* Model of diu's ingestion-and-persistence pipeline:                      *)
(*   - the JSON storage engine (internal/storage/json.go), and             *)
(*   - the daemon that feeds it (internal/daemon/daemon.go).               *)
(* Timestamps are integer ticks; a calendar day is TicksPerDay ticks.      *)
(* The metadata block of the document (hostname, last_updated, ...) is not *)
(* modelled: no operation reads it.                                        *)
(***************************************************************************)
EXTENDS Integers, Sequences, FiniteSets, TLC

VARIABLES
    data,        \* JSONStorage.data: the in-memory StorageData
    fs,          \* the files: fs.live = j.filepath, fs.tmp = j.filepath + ".tmp"
    savePc,      \* position inside save(): "idle" | "writing" | "written"
    saveOwner,   \* who holds j.mu while a mutating operation runs
    lastOp,      \* the last storage operation, its argument and its result
    prevLive     \* the live file as it was when the running operation began

svars == <<data, fs, savePc, saveOwner, lastOp, prevLive>>

VARIABLES
    started,      \* Start has run to its end
    stopped,      \* Daemon.stopped
    once,         \* Daemon.stopOnce: "fresh" | "running" | "done"
    ctxCancelled, \* d.ctx is cancelled
    chanClosed,   \* d.eventChan is closed
    eventChan,    \* the records buffered in d.eventChan
    consumerPc,   \* processEvents: "none" | "waiting" | "exited"
    acceptPc,     \* the socket accept loop: "none" | "accepting" | "exited"
    httpPc,       \* the ListenAndServe task: "none" | "serving" | "exited"
    sigPc,        \* the handleSignals task: "none" | "waiting" | "inStop" | "exited"
    sigPending,   \* a signal is buffered in sigChan
    sigSeen,      \* a signal has been sent to the process
    listenerOpen, \* d.socketListener is open
    httpOpen,     \* d.httpServer is accepting requests
    hpc,          \* per producer (connection or request): its position or outcome
    stopPc,       \* per caller of Stop: its position inside Stop
    pidFile,      \* the PID file exists
    crashed,      \* an unrecovered panic has ended the process
    releases      \* how many times each release step of Stop has run

dvars == <<started, stopped, once, ctxCancelled, chanClosed, eventChan, consumerPc,
           acceptPc, httpPc, sigPc, sigPending, sigSeen, listenerOpen, httpOpen,
           hpc, stopPc, pidFile, crashed, releases>>

VARIABLES
    backupFile,  \* the file Backup wrote last
    backedUp,    \* the document the engine held when it wrote backupFile
    fresh,       \* a second storage engine, made to restore the backup
    cli,         \* the storage engine of a CLI command, a process of its own
    tasks,       \* per concurrent caller of AddExecution: its position
    daemon,      \* what NewDaemon returned, and the configuration it was given
    registry,    \* the MonitorRegistry: its monitors, and the last InitializeAll
    parsed,      \* the last call of a monitor's ParseCommand and what it returned
    reader       \* a /stats request: the value GetStatistics gave it, and its reply

nvars == <<daemon, registry, parsed, reader>>

bvars == <<backupFile, backedUp, fresh, cli, tasks, daemon, registry, parsed, reader>>

\* the daemon's variables but crashed
dvarsAlive == <<started, stopped, once, ctxCancelled, chanClosed, eventChan, consumerPc,
                acceptPc, httpPc, sigPc, sigPending, sigSeen, listenerOpen, httpOpen,
                hpc, stopPc, pidFile, releases>>

vars == <<svars, dvars, bvars>>

(***************************************************************************)
(* Bounds of the model and input sets.                                     *)
(***************************************************************************)
MaxTime == 2
MaxExecs == 2
TicksPerDay == 2

Tools == {"npm", "go"}
Pkgs == {"express", "lodash"}
PkgLists == {<<>>, <<"express">>, <<"express", "express">>, <<"lodash", "express">>}
Times == 1..MaxTime
NoId == ""
GenIds == {"exec_gen"}
\* the empty most_active_day (no calendar day)
NoDay == -1
NoFile == [exists |-> FALSE]
NoRec == [none |-> TRUE]

\* core.ExecutionRecord values handed to AddExecution by a direct caller
Records ==
    [ID : {NoId}, Tool : Tools, Timestamp : Times, PackagesAffected : PkgLists]

(***************************************************************************)
(* Go maps: functions whose domain is the set of keys present.             *)
(***************************************************************************)
EmptyMap == [k \in {} |-> k]

MapPut(m, k, v) == [x \in (DOMAIN m) \cup {k} |-> IF x = k THEN v ELSE m[x]]

HasKey(m, k) == k \in DOMAIN m

\* a nil map: it has no key, and an assignment to one of its entries panics
NilMap == [nil |-> TRUE]

\* the JSON null a nil map is encoded as
Null == [null |-> TRUE]

\* exec.Timestamp.Format("2006-01-02")
Day(ts) == ts \div TicksPerDay

\* the StorageData literal built by Initialize when no file exists
EmptyData ==
    [Executions |-> <<>>,
     Packages   |-> EmptyMap,
     Statistics |-> [TotalExecutions    |-> 0,
                     ToolsUsed          |-> <<>>,
                     MostActiveDay      |-> NoDay,
                     ExecutionFrequency |-> EmptyMap]]

(***************************************************************************)
(* json.MarshalIndent / json.Unmarshal of the document.                    *)
(***************************************************************************)
MarshalRecord(r) ==
    [id |-> r.ID, tool |-> r.Tool, timestamp |-> r.Timestamp,
     packages_affected |-> r.PackagesAffected]

UnmarshalRecord(j) ==
    [ID |-> j.id, Tool |-> j.tool, Timestamp |-> j.timestamp,
     PackagesAffected |-> j.packages_affected]

MarshalPackage(p) ==
    [name |-> p.Name, tool |-> p.Tool, install_date |-> p.InstallDate,
     last_used |-> p.LastUsed, usage_count |-> p.UsageCount]

UnmarshalPackage(j) ==
    [Name |-> j.name, Tool |-> j.tool, InstallDate |-> j.install_date,
     LastUsed |-> j.last_used, UsageCount |-> j.usage_count]

\* an encoder that writes no packages
Marshal_WithoutPackages(d) ==
    [executions |-> [i \in 1..Len(d.Executions) |-> MarshalRecord(d.Executions[i])],
     packages   |-> EmptyMap,
     statistics |-> [total_executions    |-> d.Statistics.TotalExecutions,
                     tools_used          |-> d.Statistics.ToolsUsed,
                     most_active_day     |-> d.Statistics.MostActiveDay,
                     execution_frequency |-> d.Statistics.ExecutionFrequency]]

Marshal(d) ==
    [executions |-> [i \in 1..Len(d.Executions) |-> MarshalRecord(d.Executions[i])],
     packages   |-> IF d.Packages = NilMap THEN Null
                    ELSE [t \in DOMAIN d.Packages |->
                            [n \in DOMAIN d.Packages[t] |->
                                MarshalPackage(d.Packages[t][n])]],
     statistics |-> [total_executions    |-> d.Statistics.TotalExecutions,
                     tools_used          |-> d.Statistics.ToolsUsed,
                     most_active_day     |-> d.Statistics.MostActiveDay,
                     execution_frequency |->
                         IF d.Statistics.ExecutionFrequency = NilMap THEN Null
                         ELSE d.Statistics.ExecutionFrequency]]

\* a decoder that leaves the statistics block at its zero value
Unmarshal_WithoutStatistics(j) ==
    [Executions |-> [i \in 1..Len(j.executions) |-> UnmarshalRecord(j.executions[i])],
     Packages   |-> [t \in DOMAIN j.packages |->
                       [n \in DOMAIN j.packages[t] |-> UnmarshalPackage(j.packages[t][n])]],
     Statistics |-> EmptyData.Statistics]

\* the value of a field of a JSON object, or the zero value Go leaves in the
\* struct when the object has no such field
Field(j, name, zero) == IF name \in DOMAIN j THEN j[name] ELSE zero

\* a JSON map, or the nil map for a field that is absent or null
MapField(j, name) ==
    IF name \in DOMAIN j THEN (IF j[name] = Null THEN NilMap ELSE j[name]) ELSE NilMap

\* json.Unmarshal into a zero StorageData
Unmarshal(j) ==
    LET executions == Field(j, "executions", <<>>)
        packages == MapField(j, "packages")
        statistics == Field(j, "statistics", EmptyMap)
    IN [Executions |-> [i \in 1..Len(executions) |-> UnmarshalRecord(executions[i])],
        Packages   |-> IF packages = NilMap THEN NilMap
                       ELSE [t \in DOMAIN packages |->
                               [n \in DOMAIN packages[t] |->
                                   UnmarshalPackage(packages[t][n])]],
        Statistics |-> [TotalExecutions    |-> Field(statistics, "total_executions", 0),
                        ToolsUsed          |-> Field(statistics, "tools_used", <<>>),
                        MostActiveDay      |-> Field(statistics, "most_active_day", NoDay),
                        ExecutionFrequency |-> MapField(statistics, "execution_frequency")]]

(***************************************************************************)
(* Files. A file being written holds an incomplete document until the      *)
(* write finishes; an incomplete document does not parse.                  *)
(***************************************************************************)
FileOf(doc, complete) == [exists |-> TRUE, doc |-> doc, complete |-> complete]

\* a reader that takes whatever the file holds
Parses_IfExists(f) == f.exists

\* os.ReadFile and json.Unmarshal both succeed
Parses(f) == f.exists /\ f.complete

\* os.WriteFile, from its first byte to just before its last
WriteFileStart(files, path, doc) == [files EXCEPT ![path] = FileOf(doc, FALSE)]

\* os.WriteFile returning nil
WriteFileEnd(files, path) == [files EXCEPT ![path].complete = TRUE]

\* os.Rename: the target is replaced in one step
Rename(files, from, to) ==
    IF from = to THEN files
    ELSE [files EXCEPT ![to] = files[from], ![from] = NoFile]

tempFile_InPlace == "live"

\* save(): tempFile := j.filepath + ".tmp"
tempFile == "tmp"

(***************************************************************************)
(* The storage engine's in-memory updates.                                 *)
(***************************************************************************)
\* updatePackageInternal, lines 210-235; a nil Packages map is made first
updatePackageInternal(nilOrPackages, tool, name, timestamp) ==
    LET packages == IF nilOrPackages = NilMap THEN EmptyMap ELSE nilOrPackages
        byTool == IF HasKey(packages, tool) THEN packages[tool] ELSE EmptyMap
        pkg == IF HasKey(byTool, name)
               THEN [byTool[name] EXCEPT !.LastUsed = timestamp,
                                         !.UsageCount = @ + 1]
               ELSE [Name |-> name, Tool |-> tool, InstallDate |-> timestamp,
                     LastUsed |-> timestamp, UsageCount |-> 1]
    IN MapPut(packages, tool, MapPut(byTool, name, pkg))

\* AddExecution's loop over record.PackagesAffected
RECURSIVE updatePackages(_, _, _, _)
updatePackages(packages, tool, names, timestamp) ==
    IF names = <<>> THEN packages
    ELSE updatePackages(updatePackageInternal(packages, tool, Head(names), timestamp),
                        tool, Tail(names), timestamp)

\* AddExecution's assignment of an identifier
WithID(record, gid) == IF record.ID = NoId THEN [record EXCEPT !.ID = gid] ELSE record

\* AddExecution, lines 115-128: the document after the in-memory update
AddExecutionMem(d, record) ==
    LET st    == d.Statistics
        known == HasKey(st.ExecutionFrequency, record.Tool)
        freq0 == IF known THEN st.ExecutionFrequency
                 ELSE MapPut(st.ExecutionFrequency, record.Tool, 0)
        tools == IF known THEN st.ToolsUsed ELSE Append(st.ToolsUsed, record.Tool)
    IN [Executions |-> Append(d.Executions, record),
        Packages   |-> updatePackages(d.Packages, record.Tool,
                                      record.PackagesAffected, record.Timestamp),
        Statistics |-> [st EXCEPT !.TotalExecutions = @ + 1,
                                  !.ToolsUsed = tools,
                                  !.ExecutionFrequency =
                                      [freq0 EXCEPT ![record.Tool] = @ + 1]]]

\* a comparison that also keeps a record stamped exactly at the bound
After_OrEqual(before, e) == e.Timestamp >= before

\* exec.Timestamp.After(before), line 367
After(before, e) == e.Timestamp > before

Kept(execs, before) == SelectSeq(execs, LAMBDA e : After(before, e))

CleanupMem_StaleTotal(d, before) ==
    [d EXCEPT !.Executions = Kept(d.Executions, before)]

\* Cleanup, lines 365-373
CleanupMem(d, before) ==
    LET kept == Kept(d.Executions, before)
    IN [d EXCEPT !.Executions = kept, !.Statistics.TotalExecutions = Len(kept)]

\* UpdateStatistics, lines 306-319: the days the map iteration can end on
DayCount(execs, day) == Cardinality({i \in 1..Len(execs) : Day(execs[i].Timestamp) = day})

\* a scan that ends on any day that has an execution
MostActiveDays_AnyDay(execs) ==
    LET days == {Day(execs[i].Timestamp) : i \in 1..Len(execs)}
    IN IF days = {} THEN {NoDay} ELSE days

MostActiveDays(execs) ==
    LET days == {Day(execs[i].Timestamp) : i \in 1..Len(execs)}
    IN IF days = {} THEN {NoDay}
       ELSE {dy \in days : \A other \in days : DayCount(execs, other) <= DayCount(execs, dy)}

\* UpdatePackage, lines 198-206
UpdatePackageMem(d, pkg) ==
    LET byTool == IF HasKey(d.Packages, pkg.Tool) THEN d.Packages[pkg.Tool] ELSE EmptyMap
    IN [d EXCEPT !.Packages = MapPut(d.Packages, pkg.Tool, MapPut(byTool, pkg.Name, pkg))]

(***************************************************************************)
(* save(): the document is written to the temporary file and the temporary *)
(* file is renamed over the live file. The caller holds j.mu from the      *)
(* beginning of its operation to the return of save().                     *)
(***************************************************************************)
LockFree == savePc = "idle"

\* save(), lines 88-96: the write of the temporary file begins
SaveBegin(owner, op, arg, d) ==
    /\ fs' = WriteFileStart(fs, tempFile, Marshal(d))
    /\ savePc' = "writing"
    /\ saveOwner' = owner
    /\ lastOp' = [op |-> op, arg |-> arg, done |-> FALSE, err |-> FALSE, at |-> "idle"]
    /\ prevLive' = fs.live

SaveReturn(err) ==
    /\ savePc' = "idle"
    /\ saveOwner' = "none"
    /\ lastOp' = [lastOp EXCEPT !.done = TRUE, !.err = err]

\* save(), line 96: os.WriteFile succeeded
SaveWriteOk ==
    /\ savePc = "writing" /\ ~crashed
    /\ fs' = WriteFileEnd(fs, tempFile)
    /\ savePc' = "written"
    /\ UNCHANGED <<data, saveOwner, lastOp, prevLive, dvars, bvars>>

\* save(), lines 96-98: os.WriteFile failed, the error is returned
SaveWriteFail ==
    /\ savePc = "writing" /\ ~crashed
    /\ SaveReturn(TRUE)
    /\ UNCHANGED <<data, fs, prevLive, dvars, bvars>>

\* save(), lines 100-104: os.Rename succeeded
SaveRenameOk ==
    /\ savePc = "written" /\ ~crashed
    /\ fs' = Rename(fs, tempFile, "live")
    /\ SaveReturn(FALSE)
    /\ UNCHANGED <<data, prevLive, dvars, bvars>>

\* save(), lines 100-102: os.Rename failed, the error is returned
SaveRenameFail ==
    /\ savePc = "written" /\ ~crashed
    /\ SaveReturn(TRUE)
    /\ UNCHANGED <<data, fs, prevLive, dvars, bvars>>

SaveStep == SaveWriteOk \/ SaveWriteFail \/ SaveRenameOk \/ SaveRenameFail

(***************************************************************************)
(* The storage engine's mutating operations, up to their call of save().   *)
(***************************************************************************)
AddExecution(owner, record) ==
    /\ LockFree
    /\ \E gid \in GenIds :
         LET rec == WithID(record, gid)
             d2  == AddExecutionMem(data, rec)
         IN /\ data' = d2
            /\ SaveBegin(owner, "AddExecution", rec, d2)

Cleanup(owner, before) ==
    /\ LockFree
    /\ LET d2 == CleanupMem(data, before)
       IN /\ data' = d2
          /\ SaveBegin(owner, "Cleanup", before, d2)

UpdateStatistics(owner) ==
    /\ LockFree
    /\ \E dy \in MostActiveDays(data.Executions) :
         LET d2 == [data EXCEPT !.Statistics.MostActiveDay = dy]
         IN /\ data' = d2
            /\ SaveBegin(owner, "UpdateStatistics", NoRec, d2)

UpdatePackage(owner, pkg) ==
    /\ LockFree
    /\ LET d2 == UpdatePackageMem(data, pkg)
       IN /\ data' = d2
          /\ SaveBegin(owner, "UpdatePackage", NoRec, d2)

\* Restore: a missing or unparsable file is an error before anything changes
Restore(owner, file) ==
    /\ LockFree
    /\ IF Parses(file)
       THEN LET d2 == Unmarshal(file.doc)
            IN /\ data' = d2
               /\ SaveBegin(owner, "Restore", file, d2)
       ELSE /\ lastOp' = [op |-> "Restore", arg |-> file, done |-> TRUE, err |-> TRUE,
                          at |-> "idle"]
            /\ UNCHANGED <<data, fs, savePc, saveOwner, prevLive>>

Close(owner) ==
    /\ LockFree
    /\ data' = data
    /\ SaveBegin(owner, "Close", NoRec, data)

(***************************************************************************)
(* Direct callers of the storage engine (the CLI commands, the tests).     *)
(***************************************************************************)
UpdatePackageInputs ==
    {[Name |-> "express", Tool |-> "npm", InstallDate |-> 1, LastUsed |-> 1,
      UsageCount |-> 0]}

BackupRecord == [ID |-> "exec_bak", Tool |-> "go", Timestamp |-> 1,
                 PackagesAffected |-> <<"lodash">>]

RestoreFiles ==
    {NoFile,
     FileOf(Marshal(EmptyData), FALSE),
     FileOf(Marshal(AddExecutionMem(EmptyData, BackupRecord)), TRUE)}

\* the appends the document has counted so far
RECURSIVE SumOver(_, _)
SumOver(f, keys) ==
    IF keys = {} THEN 0
    ELSE LET k == CHOOSE x \in keys : TRUE IN f[k] + SumOver(f, keys \ {k})

Appended(d) == SumOver(d.Statistics.ExecutionFrequency,
                       DOMAIN d.Statistics.ExecutionFrequency)

CallAddExecutionFrom(inputs) ==
    /\ Appended(data) < MaxExecs
    /\ \E r \in inputs : AddExecution("caller", r)
    /\ UNCHANGED <<dvars, bvars>>

CallAddExecution == CallAddExecutionFrom(Records)

\* the records appended where every operation and the kill are interleaved
FewRecords ==
    {r \in Records : r.Tool = "npm" /\ r.PackagesAffected \in {<<>>, <<"express">>}}

CallAddExecutionFew == CallAddExecutionFrom(FewRecords)

CallCleanup ==
    /\ \E before \in 0..MaxTime : Cleanup("caller", before)
    /\ UNCHANGED <<dvars, bvars>>

CallUpdateStatistics == UpdateStatistics("caller") /\ UNCHANGED <<dvars, bvars>>

CallUpdatePackage ==
    /\ \E pkg \in UpdatePackageInputs : UpdatePackage("caller", pkg)
    /\ UNCHANGED <<dvars, bvars>>

CallRestore ==
    /\ \E file \in RestoreFiles : Restore("caller", file)
    /\ UNCHANGED <<dvars, bvars>>

CallClose == Close("caller") /\ UNCHANGED <<dvars, bvars>>

\* The process is killed and started again: NewJSONStorage, Initialize
CrashRestart ==
    /\ ~started
    /\ IF ~fs.live.exists
       THEN /\ data' = EmptyData
            /\ SaveBegin("caller", "Initialize", NoRec, EmptyData)
       ELSE /\ Parses(fs.live)
            /\ data' = Unmarshal(fs.live.doc)
            /\ savePc' = "idle"
            /\ saveOwner' = "none"
            /\ lastOp' = [op |-> "CrashRestart", arg |-> NoRec, done |-> TRUE,
                          err |-> FALSE, at |-> savePc]
            /\ UNCHANGED <<fs, prevLive>>
    /\ UNCHANGED <<dvars, bvars>>

(***************************************************************************)
(* Initial state: a storage engine constructed where no file existed, and  *)
(* a daemon that NewDaemon has just returned.                              *)
(***************************************************************************)
Handlers == {"s1", "s2", "h1"}
StopCallers == {"main", "other", "sig"}

\* the switch of NewDaemon, lines 47-57: the tools that have a monitor
KnownTools == {"homebrew", "npm", "go"}

\* the registry NewMonitorRegistry returns, process.go lines 279-283
NewMonitorRegistry == [monitors |-> {}, initialized |-> {}, failing |-> {}, pc |-> "idle"]

\* everything but the storage engine and the daemon object: no task runs, no
\* caller has called anything
InitTasks ==
    /\ savePc = "idle"
    /\ saveOwner = "none"
    /\ prevLive = NoFile
    /\ started = FALSE
    /\ stopped = FALSE
    /\ once = "fresh"
    /\ ctxCancelled = FALSE
    /\ chanClosed = FALSE
    /\ eventChan = <<>>
    /\ consumerPc = "none"
    /\ acceptPc = "none"
    /\ httpPc = "none"
    /\ sigPc = "none"
    /\ sigPending = FALSE
    /\ sigSeen = FALSE
    /\ listenerOpen = FALSE
    /\ httpOpen = FALSE
    /\ hpc = [h \in Handlers |-> "idle"]
    /\ stopPc = [c \in StopCallers |-> "idle"]
    /\ pidFile = FALSE
    /\ crashed = FALSE
    /\ releases = [cancel |-> 0, closeChan |-> 0, closeStorage |-> 0, removePid |-> 0]
    /\ backupFile = NoFile
    /\ backedUp = NoRec
    /\ fresh = [made |-> FALSE]
    /\ cli = [pc |-> "none", cmd |-> "none", data |-> EmptyData, bound |-> 0]
    /\ tasks = [t \in {"t1", "t2", "t3"} |-> "ready"]
    /\ parsed = [tool |-> "none"]
    /\ reader = [pc |-> "none"]

Init ==
    /\ data = EmptyData
    /\ fs = [live |-> FileOf(Marshal(EmptyData), TRUE), tmp |-> NoFile]
    /\ lastOp = [op |-> "Initialize", arg |-> NoRec, done |-> TRUE, err |-> FALSE,
                 at |-> "idle"]
    /\ InitTasks
    /\ daemon = [state |-> "created", enabled |-> <<"homebrew", "npm", "go">>,
                 failing |-> {}]
    /\ registry = [NewMonitorRegistry EXCEPT !.monitors = KnownTools]

\* appends only
NextAppend == CallAddExecution \/ SaveStep

AppendSpec == Init /\ [][NextAppend]_vars

\* appends and cleanups
NextStore == CallAddExecution \/ CallCleanup \/ SaveStep

StoreSpec == Init /\ [][NextStore]_vars

\* every mutating operation, and the process being killed at any point
NextFullStore ==
    \/ CallAddExecutionFew \/ CallCleanup \/ CallUpdateStatistics \/ CallUpdatePackage
    \/ CallRestore \/ CallClose \/ CrashRestart \/ SaveStep

FullStoreSpec == Init /\ [][NextFullStore]_vars

(***************************************************************************)
(* The daemon. Each producer (an accepted socket connection, an HTTP POST) *)
(* submits at most one record; the record a producer carries is fixed.     *)
(***************************************************************************)
QueueCap == 2

SocketHandlers == {"s1", "s2"}
HTTPHandlers == {"h1"}
ExternalCallers == {"main", "other"}

WireRecord(h) ==
    CASE h = "s1" -> [ID |-> "s1", Tool |-> "npm", Timestamp |-> 1,
                      PackagesAffected |-> <<"express">>]
      [] h = "s2" -> [ID |-> "s2", Tool |-> "go", Timestamp |-> 2,
                      PackagesAffected |-> <<>>]
      [] h = "h1" -> [ID |-> "h1", Tool |-> "npm", Timestamp |-> 2,
                      PackagesAffected |-> <<"lodash", "express">>]

B2N(b) == IF b THEN 1 ELSE 0

\* d.wg: the tasks added with wg.Add(1) that have not yet called wg.Done()
WgCount ==
    B2N(consumerPc = "waiting") + B2N(acceptPc = "accepting")
    + B2N(httpPc = "serving") + B2N(sigPc \in {"waiting", "inStop"})

\* Start: the PID file, the consumer, the monitors, the socket listener, the
\* HTTP server when the API is enabled, the signal handler
StartBody ==
    /\ \E pidOk \in BOOLEAN, sockOk \in BOOLEAN, api \in BOOLEAN :
         IF ~pidOk
         THEN UNCHANGED dvars
         ELSE /\ pidFile' = TRUE
              /\ consumerPc' = "waiting"
              /\ listenerOpen' = sockOk
              /\ acceptPc' = IF sockOk THEN "accepting" ELSE "none"
              /\ httpOpen' = api
              /\ httpPc' = IF api THEN "serving" ELSE "none"
              /\ sigPc' = "waiting"
              /\ started' = TRUE
              /\ UNCHANGED <<stopped, once, ctxCancelled, chanClosed, eventChan,
                             sigPending, sigSeen, hpc, stopPc, crashed, releases>>
    /\ UNCHANGED <<svars, bvars>>

\* the program calls Start on the daemon NewDaemon returned (main.go, line 236)
Start ==
    /\ daemon.state = "created"
    /\ ~started /\ ~crashed
    /\ StartBody

\* a caller calls Start on a daemon whose Stop has returned: Start has no
\* check of its own (lines 81-108)
StartAfterStop ==
    /\ started /\ ~crashed
    /\ once = "done"
    /\ StartBody

Bump(r, field) == [r EXCEPT ![field] = @ + 1]

OnceAdmits_Always(o) == TRUE

\* sync.Once: only the first call of Do runs the function
OnceAdmits(o) == o = "fresh"

\* Stop, lines 111-116: stopOnce.Do; the first caller sets stopped and cancels
\* the context, a caller that finds the first one running waits for it, a
\* caller that finds it done returns
StopEnter(c) ==
    IF OnceAdmits(once)
    THEN /\ once' = "running"
         /\ stopped' = TRUE
         /\ ctxCancelled' = TRUE
         /\ releases' = Bump(releases, "cancel")
         /\ stopPc' = [stopPc EXCEPT ![c] = "closeListeners"]
    ELSE /\ stopPc' = [stopPc EXCEPT ![c] = IF once = "running" THEN "blockedOnce"
                                                                ELSE "returned"]
         /\ UNCHANGED <<once, stopped, ctxCancelled, releases>>

\* an external caller (the tests, an embedding program) calls Stop
StopCall(c) ==
    /\ started /\ ~crashed
    /\ stopPc[c] = "idle"
    /\ StopEnter(c)
    /\ UNCHANGED <<started, chanClosed, eventChan, consumerPc, acceptPc, httpPc, sigPc,
                   sigPending, sigSeen, listenerOpen, httpOpen, hpc, pidFile, crashed>>
    /\ UNCHANGED <<svars, bvars>>

\* Stop, lines 118-132: registry.StopAll, httpServer.Shutdown (it returns when
\* the requests in flight have ended or after its 5 s), socketListener.Close
StopCloseListeners(c) ==
    /\ ~crashed
    /\ stopPc[c] = "closeListeners"
    /\ httpOpen' = FALSE
    /\ listenerOpen' = FALSE
    /\ stopPc' = [stopPc EXCEPT ![c] = "closeChan"]
    /\ UNCHANGED <<started, stopped, once, ctxCancelled, chanClosed, eventChan,
                   consumerPc, acceptPc, httpPc, sigPc, sigPending, sigSeen, hpc,
                   pidFile, crashed, releases>>
    /\ UNCHANGED <<svars, bvars>>

\* Stop, line 134: close(d.eventChan); closing a closed channel panics
StopCloseChan(c) ==
    /\ ~crashed
    /\ stopPc[c] = "closeChan"
    /\ IF chanClosed
       THEN /\ crashed' = TRUE
            /\ stopPc' = [stopPc EXCEPT ![c] = "panicked"]
            /\ UNCHANGED <<chanClosed, releases>>
       ELSE /\ chanClosed' = TRUE
            /\ releases' = Bump(releases, "closeChan")
            /\ stopPc' = [stopPc EXCEPT ![c] = "wait"]
            /\ UNCHANGED crashed
    /\ UNCHANGED <<started, stopped, once, ctxCancelled, eventChan, consumerPc,
                   acceptPc, httpPc, sigPc, sigPending, sigSeen, listenerOpen,
                   httpOpen, hpc, pidFile>>
    /\ UNCHANGED <<svars, bvars>>

\* Stop, line 136: d.wg.Wait() returns
StopWait(c) ==
    /\ ~crashed
    /\ stopPc[c] = "wait"
    /\ WgCount = 0
    /\ stopPc' = [stopPc EXCEPT ![c] = "closeStorage"]
    /\ UNCHANGED <<started, stopped, once, ctxCancelled, chanClosed, eventChan,
                   consumerPc, acceptPc, httpPc, sigPc, sigPending, sigSeen,
                   listenerOpen, httpOpen, hpc, pidFile, crashed, releases>>
    /\ UNCHANGED <<svars, bvars>>

\* Stop, line 138: d.storage.Close() is called
StopCloseStorage(c) ==
    /\ ~crashed
    /\ stopPc[c] = "closeStorage"
    /\ Close(c)
    /\ releases' = Bump(releases, "closeStorage")
    /\ stopPc' = [stopPc EXCEPT ![c] = "closing"]
    /\ UNCHANGED <<started, stopped, once, ctxCancelled, chanClosed, eventChan,
                   consumerPc, acceptPc, httpPc, sigPc, sigPending, sigSeen,
                   listenerOpen, httpOpen, hpc, pidFile, crashed>>
    /\ UNCHANGED bvars

\* Stop, lines 138-148: Close has returned (an error is logged), the PID file
\* is removed, Do returns and Stop returns stopErr, which is never set
StopFinish(c) ==
    /\ ~crashed
    /\ stopPc[c] = "closing"
    /\ saveOwner # c
    /\ pidFile' = FALSE
    /\ releases' = Bump(releases, "removePid")
    /\ once' = "done"
    /\ stopPc' = [stopPc EXCEPT ![c] = "returned"]
    /\ UNCHANGED <<started, stopped, ctxCancelled, chanClosed, eventChan, consumerPc,
                   acceptPc, httpPc, sigPc, sigPending, sigSeen, listenerOpen,
                   httpOpen, hpc, crashed>>
    /\ UNCHANGED <<svars, bvars>>

\* a caller that waited in stopOnce.Do returns once the first call is done
StopUnblock(c) ==
    /\ ~crashed
    /\ stopPc[c] = "blockedOnce"
    /\ once = "done"
    /\ stopPc' = [stopPc EXCEPT ![c] = "returned"]
    /\ UNCHANGED <<started, stopped, once, ctxCancelled, chanClosed, eventChan,
                   consumerPc, acceptPc, httpPc, sigPc, sigPending, sigSeen,
                   listenerOpen, httpOpen, hpc, pidFile, crashed, releases>>
    /\ UNCHANGED <<svars, bvars>>

StopStep(c) ==
    \/ StopCloseListeners(c) \/ StopCloseChan(c) \/ StopWait(c)
    \/ StopCloseStorage(c) \/ StopFinish(c) \/ StopUnblock(c)

(***************************************************************************)
(* processEvents: the consumer.                                            *)
(***************************************************************************)
ConsumerContinues_OnlyOnSuccess(err) == ~err

\* lines 164-166: the error of AddExecution is logged and the loop goes on
ConsumerContinues(err) == TRUE

\* the consumer is in its select: it runs, its call of AddExecution has
\* returned, and whatever that call returned did not end the loop
ConsumerIdle ==
    /\ consumerPc = "waiting" /\ saveOwner # "consumer" /\ ~crashed
    /\ (lastOp.op = "AddExecution" /\ lastOp.done) => ConsumerContinues(lastOp.err)

\* the producers parked in the channel's send queue
WaitingSenders == {h \in Handlers : hpc[h] = "blocked"}

Received_Newest(q) == q[Len(q)]

\* line 160, `event, ok := <-d.eventChan`: a receive takes the oldest element
\* of the channel's buffer
Received(q) == Head(q)

\* lines 160-166: a record is received and handed to AddExecution; a receive
\* from a full channel moves a waiting sender's record into the freed slot and
\* wakes that sender (handleSocketConnection, line 219)
ConsumerReceive ==
    /\ ConsumerIdle
    /\ eventChan # <<>>
    /\ AddExecution("consumer", Received(eventChan))
    /\ IF WaitingSenders # {} /\ ~chanClosed
       THEN \E h \in WaitingSenders :
               /\ eventChan' = Append(Tail(eventChan), WireRecord(h))
               /\ hpc' = [hpc EXCEPT ![h] = "enqueued"]
       ELSE /\ eventChan' = Tail(eventChan)
            /\ UNCHANGED hpc
    /\ UNCHANGED <<started, stopped, once, ctxCancelled, chanClosed, consumerPc,
                   acceptPc, httpPc, sigPc, sigPending, sigSeen, listenerOpen,
                   httpOpen, stopPc, pidFile, crashed, releases>>
    /\ UNCHANGED bvars

\* lines 160-163: the channel is closed and drained
ConsumerChanClosed ==
    /\ ConsumerIdle
    /\ eventChan = <<>>
    /\ chanClosed
    /\ consumerPc' = "exited"
    /\ UNCHANGED <<started, stopped, once, ctxCancelled, chanClosed, eventChan,
                   acceptPc, httpPc, sigPc, sigPending, sigSeen, listenerOpen,
                   httpOpen, hpc, stopPc, pidFile, crashed, releases>>
    /\ UNCHANGED <<svars, bvars>>

\* lines 168-169: select takes the cancellation case, whatever is queued
ConsumerCtxDone ==
    /\ ConsumerIdle
    /\ ctxCancelled
    /\ consumerPc' = "exited"
    /\ UNCHANGED <<started, stopped, once, ctxCancelled, chanClosed, eventChan,
                   acceptPc, httpPc, sigPc, sigPending, sigSeen, listenerOpen,
                   httpOpen, hpc, stopPc, pidFile, crashed, releases>>
    /\ UNCHANGED <<svars, bvars>>

(***************************************************************************)
(* The socket accept loop, the HTTP server task and the producers.         *)
(***************************************************************************)
HandlerVarsUnchanged ==
    UNCHANGED <<started, stopped, once, ctxCancelled, chanClosed, consumerPc,
                acceptPc, httpPc, sigPc, sigPending, sigSeen, listenerOpen,
                httpOpen, stopPc, pidFile, releases>>

\* the payload a client sends decodes into a record ("reading") or does not
Arrived(wellFormed) == IF wellFormed THEN "reading" ELSE "readingBad"

\* startSocketListener, lines 190-201: a connection is accepted
Accept(h) ==
    /\ ~crashed
    /\ acceptPc = "accepting" /\ listenerOpen
    /\ h \in SocketHandlers /\ hpc[h] = "idle"
    /\ \E wellFormed \in BOOLEAN : hpc' = [hpc EXCEPT ![h] = Arrived(wellFormed)]
    /\ UNCHANGED <<eventChan, crashed>>
    /\ HandlerVarsUnchanged
    /\ UNCHANGED <<svars, bvars>>

\* startSocketListener, lines 191-194: Accept fails on the closed listener
AcceptLoopExit ==
    /\ ~crashed
    /\ acceptPc = "accepting" /\ ~listenerOpen /\ ctxCancelled
    /\ acceptPc' = "exited"
    /\ UNCHANGED <<started, stopped, once, ctxCancelled, chanClosed, eventChan,
                   consumerPc, httpPc, sigPc, sigPending, sigSeen, listenerOpen,
                   httpOpen, hpc, stopPc, pidFile, crashed, releases>>
    /\ UNCHANGED <<svars, bvars>>

\* the HTTP server hands a POST /api/v1/executions to handleExecutions
HTTPPost(h) ==
    /\ ~crashed
    /\ httpPc = "serving" /\ httpOpen
    /\ h \in HTTPHandlers /\ hpc[h] = "idle"
    /\ \E wellFormed \in BOOLEAN : hpc' = [hpc EXCEPT ![h] = Arrived(wellFormed)]
    /\ UNCHANGED <<eventChan, crashed>>
    /\ HandlerVarsUnchanged
    /\ UNCHANGED <<svars, bvars>>

\* the methods of a request to /api/v1/executions that carry no record
OtherMethods == {"GET", "DELETE"}

\* the HTTP server hands a GET or a DELETE /api/v1/executions to handleExecutions
HTTPRequest(h) ==
    /\ ~crashed
    /\ httpPc = "serving" /\ httpOpen
    /\ h \in HTTPHandlers /\ hpc[h] = "idle"
    /\ \E method \in OtherMethods : hpc' = [hpc EXCEPT ![h] = method]
    /\ UNCHANGED <<eventChan, crashed>>
    /\ HandlerVarsUnchanged
    /\ UNCHANGED <<svars, bvars>>

\* handleExecutions, lines 253-272 and 288-290: GET lists the executions,
\* any method other than GET and POST is refused; the queue is not touched
HTTPHandlerNoRecord(h) ==
    /\ ~crashed
    /\ h \in HTTPHandlers /\ hpc[h] \in OtherMethods
    /\ hpc' = [hpc EXCEPT ![h] = IF hpc[h] = "GET" THEN "listed" ELSE "notAllowed"]
    /\ UNCHANGED <<eventChan, crashed>>
    /\ HandlerVarsUnchanged
    /\ UNCHANGED <<svars, bvars>>

\* startHTTPServer, lines 240-246: ListenAndServe returns after Shutdown
HTTPServeReturn ==
    /\ ~crashed
    /\ httpPc = "serving" /\ ~httpOpen
    /\ httpPc' = "exited"
    /\ UNCHANGED <<started, stopped, once, ctxCancelled, chanClosed, eventChan,
                   consumerPc, acceptPc, sigPc, sigPending, sigSeen, listenerOpen,
                   httpOpen, hpc, stopPc, pidFile, crashed, releases>>
    /\ UNCHANGED <<svars, bvars>>

\* what a handler does with a payload that does not decode, had it no check
AfterBadPayload_Enqueues == "reading"

\* lines 214-217: the decode error is logged and the handler returns
AfterBadPayload == "malformed"

\* lines 213-216 and 276-279: the payload does not decode
HandlerDecodeFail(h) ==
    /\ ~crashed
    /\ hpc[h] = "readingBad"
    /\ hpc' = [hpc EXCEPT ![h] = AfterBadPayload]
    /\ UNCHANGED <<eventChan, crashed>>
    /\ HandlerVarsUnchanged
    /\ UNCHANGED <<svars, bvars>>

\* a send on a channel whose buffer is never full
HasRoom_Unbounded == TRUE

HasRoom == Len(eventChan) < QueueCap

\* handleSocketConnection, lines 213-219: the record is decoded and the select
\* is entered; a send on a closed channel panics and nothing recovers it
SocketHandlerSend(h) ==
    /\ ~crashed
    /\ h \in SocketHandlers /\ hpc[h] = "reading"
    /\ IF chanClosed
       THEN /\ hpc' = [hpc EXCEPT ![h] = "panicked"]
            /\ crashed' = TRUE
            /\ UNCHANGED eventChan
       ELSE IF HasRoom
       THEN /\ eventChan' = Append(eventChan, WireRecord(h))
            /\ hpc' = [hpc EXCEPT ![h] = "enqueued"]
            /\ UNCHANGED crashed
       ELSE /\ hpc' = [hpc EXCEPT ![h] = "blocked"]
            /\ UNCHANGED <<eventChan, crashed>>
    /\ HandlerVarsUnchanged
    /\ UNCHANGED <<svars, bvars>>

\* line 219: the channel is closed while the handler waits to send
SocketHandlerClosed(h) ==
    /\ ~crashed
    /\ hpc[h] = "blocked" /\ chanClosed
    /\ hpc' = [hpc EXCEPT ![h] = "panicked"]
    /\ crashed' = TRUE
    /\ UNCHANGED eventChan
    /\ HandlerVarsUnchanged
    /\ UNCHANGED <<svars, bvars>>

\* lines 220-221: time.After(time.Second) fires, the event is dropped; closing
\* the channel has already woken every waiting sender, which then panics
SocketHandlerTimeout(h) ==
    /\ ~crashed
    /\ hpc[h] = "blocked" /\ ~chanClosed
    /\ hpc' = [hpc EXCEPT ![h] = "dropped"]
    /\ UNCHANGED <<eventChan, crashed>>
    /\ HandlerVarsUnchanged
    /\ UNCHANGED <<svars, bvars>>

\* handleExecutions, lines 276-286: the select with a default case; net/http
\* recovers a handler's panic, so the process goes on
HTTPHandlerSend(h) ==
    /\ ~crashed
    /\ h \in HTTPHandlers /\ hpc[h] = "reading"
    /\ IF chanClosed
       THEN /\ hpc' = [hpc EXCEPT ![h] = "panicked"]
            /\ UNCHANGED eventChan
       ELSE IF HasRoom
       THEN /\ eventChan' = Append(eventChan, WireRecord(h))
            /\ hpc' = [hpc EXCEPT ![h] = "enqueued"]
       ELSE /\ hpc' = [hpc EXCEPT ![h] = "rejected"]
            /\ UNCHANGED eventChan
    /\ UNCHANGED crashed
    /\ HandlerVarsUnchanged
    /\ UNCHANGED <<svars, bvars>>

(***************************************************************************)
(* handleSignals: the signal task.                                         *)
(***************************************************************************)
\* SIGINT or SIGTERM is sent to the process (diu daemon stop, Ctrl-C)
SignalArrives ==
    /\ started /\ ~crashed /\ ~sigSeen
    /\ sigSeen' = TRUE
    /\ sigPending' = TRUE
    /\ UNCHANGED <<started, stopped, once, ctxCancelled, chanClosed, eventChan,
                   consumerPc, acceptPc, httpPc, sigPc, listenerOpen, httpOpen, hpc,
                   stopPc, pidFile, crashed, releases>>
    /\ UNCHANGED <<svars, bvars>>

\* lines 356-358: the task receives the signal and calls d.Stop()
SigTaskTakeSignal ==
    /\ ~crashed
    /\ sigPc = "waiting" /\ sigPending
    /\ sigPending' = FALSE
    /\ sigPc' = "inStop"
    /\ StopEnter("sig")
    /\ UNCHANGED <<started, chanClosed, eventChan, consumerPc, acceptPc, httpPc,
                   sigSeen, listenerOpen, httpOpen, hpc, pidFile, crashed>>
    /\ UNCHANGED <<svars, bvars>>

\* lines 354-361: the task ends, on the cancellation (lines 359-360) or when
\* its own call of d.Stop() has returned (line 358); the deferred wg.Done() runs
SigTaskExit ==
    /\ ~crashed
    /\ IF sigPc = "waiting" THEN ctxCancelled
       ELSE sigPc = "inStop" /\ stopPc["sig"] = "returned"
    /\ sigPc' = "exited"
    /\ UNCHANGED <<started, stopped, once, ctxCancelled, chanClosed, eventChan,
                   consumerPc, acceptPc, httpPc, sigPending, sigSeen, listenerOpen,
                   httpOpen, hpc, stopPc, pidFile, crashed, releases>>
    /\ UNCHANGED <<svars, bvars>>

(***************************************************************************)
(* The daemon's specification.                                             *)
(***************************************************************************)
\* the steps the daemon's own tasks take once they are able to
DaemonProgress ==
    \/ \E c \in StopCallers : StopStep(c)
    \/ ConsumerReceive \/ ConsumerChanClosed \/ ConsumerCtxDone
    \/ AcceptLoopExit \/ HTTPServeReturn
    \/ \E h \in Handlers :
          SocketHandlerClosed(h) \/ SocketHandlerTimeout(h)
    \/ SigTaskTakeSignal \/ SigTaskExit
    \/ SaveStep

\* the steps that wait for the outside: callers, clients, signals
DaemonEnvironment ==
    \/ Start
    \/ \E c \in ExternalCallers : StopCall(c)
    \/ \E h \in Handlers :
          \/ Accept(h) \/ HTTPPost(h) \/ HTTPRequest(h) \/ HandlerDecodeFail(h)
          \/ SocketHandlerSend(h) \/ HTTPHandlerSend(h) \/ HTTPHandlerNoRecord(h)
    \/ SignalArrives

NextDaemon == DaemonProgress \/ DaemonEnvironment

DaemonSpec == Init /\ [][NextDaemon]_vars

\* the daemon with a caller that may call Start again after Stop
NextLifecycle == NextDaemon \/ StartAfterStop

LifecycleSpec == Init /\ [][NextLifecycle]_vars

\* the Go scheduler runs every task that can take a step
FairDaemonSpec == DaemonSpec /\ WF_vars(DaemonProgress)

(***************************************************************************)
(* Read operations and derived quantities.                                 *)
(***************************************************************************)
\* GetStatistics: a copy of the Statistics struct
GetStatistics(d) == d.Statistics

\* the PackageInfo.UsageCount of (tool, name), 0 when there is no entry
UsageCount(d, tool, name) ==
    IF HasKey(d.Packages, tool) /\ HasKey(d.Packages[tool], name)
    THEN d.Packages[tool][name].UsageCount
    ELSE 0

\* the per-tool counter, 0 when the map has no entry for the tool
Frequency(d, tool) ==
    IF HasKey(d.Statistics.ExecutionFrequency, tool)
    THEN d.Statistics.ExecutionFrequency[tool]
    ELSE 0

Names(record, name) ==
    \E i \in 1..Len(record.PackagesAffected) : record.PackagesAffected[i] = name

ExecutionsNaming(d, tool, name) ==
    Cardinality({i \in 1..Len(d.Executions) :
                   d.Executions[i].Tool = tool /\ Names(d.Executions[i], name)})

ExecutionsOf(d, tool) ==
    Cardinality({i \in 1..Len(d.Executions) : d.Executions[i].Tool = tool})

(***************************************************************************)
(* Claims about the storage engine.                                        *)
(***************************************************************************)

\* C2: after any sequence of appends and cleanups on an engine that started
\* with an empty document, statistics().total_executions equals the number
\* of records in the Executions list.
C2_TotalEqualsListLength ==
    GetStatistics(data).TotalExecutions = Len(data.Executions)

\* C2 witness: a cleanup has returned after removing one of two appended
\* records, and the counter reads 1.
C2_Witness ==
    /\ lastOp.op = "Cleanup" /\ lastOp.done
    /\ Appended(data) = 2
    /\ Len(data.Executions) = 1
    /\ GetStatistics(data).TotalExecutions = 1

\* C3 (as claimed): after any sequence of appends, the usage count of every
\* (tool, package) pair equals the number of stored executions of that tool
\* whose affected-packages list names the package.
C3_UsageCountEqualsNamingExecutions ==
    \A tool \in Tools, name \in Pkgs :
        UsageCount(data, tool, name) = ExecutionsNaming(data, tool, name)

\* C4: at every point of every mutating operation, and after the process is
\* killed at any point, the live file holds a complete document: the one it
\* held when the operation began, or the new one.
C4_LiveFileIsPreviousOrNew ==
    /\ Parses(fs.live)
    /\ \/ fs.live.doc = Marshal(data)
       \/ fs.live = prevLive

\* C4 witness: the process was killed after the temporary file was written
\* and before the rename; the temporary file holds a document the live file
\* does not.
C4_Witness ==
    /\ lastOp.op = "CrashRestart" /\ lastOp.at = "written"
    /\ fs.tmp.exists /\ fs.tmp.complete
    /\ fs.tmp.doc # fs.live.doc

\* C9 (as claimed): when append has returned, the in-memory document and the
\* live file agree: after an error neither holds the record, after success
\* both do.
C9_AppendUpdatesMemoryAndFileTogether ==
    (savePc = "idle" /\ lastOp.op = "AddExecution" /\ lastOp.done)
        => /\ Marshal(data) = fs.live.doc
           /\ lastOp.err =>
                 \A i \in 1..Len(data.Executions) : data.Executions[i] # lastOp.arg

\* C10 (as claimed): after any sequence of appends and cleanups, the per-tool
\* frequency counter equals the number of stored executions of that tool.
C10_FrequencyEqualsStoredExecutions ==
    \A tool \in Tools : Frequency(data, tool) = ExecutionsOf(data, tool)

(***************************************************************************)
(* Claims about the daemon.                                                *)
(***************************************************************************)
Stored(record) ==
    Cardinality({i \in 1..Len(data.Executions) : data.Executions[i] = record})

\* Stop has run to its end
StopCompleted ==
    /\ once = "done"
    /\ WgCount = 0
    /\ releases.closeStorage >= 1
    /\ ~pidFile

\* C1 (as claimed): every record a producer enqueued is appended to the
\* storage engine exactly once, also when Stop is requested while records
\* are queued: no record is stored twice, and once Stop has completed every
\* enqueued record is stored.
C1_EnqueuedRecordsAreStoredOnce ==
    \A h \in Handlers :
        /\ Stored(WireRecord(h)) <= 1
        /\ (once = "done" /\ hpc[h] = "enqueued") => Stored(WireRecord(h)) = 1

\* C5: a second call of Stop, after or during the first, fails in no way and
\* repeats no release step: the cancellation, the close of the event queue,
\* the close of the storage engine and the removal of the PID file each
\* happen at most once.
C5_StopReleasesOnce ==
    /\ releases.cancel <= 1
    /\ releases.closeChan <= 1
    /\ releases.closeStorage <= 1
    /\ releases.removePid <= 1
    /\ \A c \in StopCallers : stopPc[c] # "panicked"

\* C5 witness: two external callers have both returned from Stop, the second
\* having waited for or come after the first, and each release step ran once.
C5_Witness ==
    /\ stopPc["main"] = "returned" /\ stopPc["other"] = "returned"
    /\ releases = [cancel |-> 1, closeChan |-> 1, closeStorage |-> 1, removePid |-> 1]

\* C6 (as claimed): a Stop requested by an external caller on a running
\* daemon terminates: every spawned task exits, the wait returns, the storage
\* engine is closed and the PID file is removed.
C6_ExternalStopCompletes ==
    (stopPc["main"] # "idle") ~> StopCompleted

\* C7 (as claimed): once the signal task has received a termination signal
\* and requested the stop, the daemon reaches Stopped with all tasks finished,
\* the storage engine flushed and the PID file removed.
C7_SignalStopCompletes ==
    (sigPc = "inStop") ~> StopCompleted

\* C8 (as claimed): no producer attempts to enqueue after Stop has closed the
\* event queue, and no producer's attempt ends the process.
C8_NoSendOnClosedQueue ==
    /\ \A h \in Handlers : hpc[h] # "panicked"
    /\ ~crashed

(***************************************************************************)
(* The event queue and its producers.                                      *)
(***************************************************************************)
\* the producers whose record the queue holds
Queued(h) == \E i \in 1..Len(eventChan) : eventChan[i] = WireRecord(h)

\* the producers whose attempt found the queue full
FoundFull(h) == hpc[h] \in {"blocked", "dropped", "rejected"}

\* C11: the event queue never holds more records than its capacity, however
\* many producers send at once, and a producer whose attempt found the queue
\* full (it waits, has dropped its record, or was rejected) has added nothing.
C11_QueueNeverExceedsCapacity ==
    /\ Len(eventChan) <= QueueCap
    /\ \A h \in Handlers : FoundFull(h) => ~Queued(h) /\ Stored(WireRecord(h)) = 0

\* C11: the queue is full and a producer that found it full waits for a slot.
C11_Witness ==
    /\ Len(eventChan) = QueueCap
    /\ \E h \in Handlers : hpc[h] = "blocked"

\* C12 (as claimed): a socket connection handler that waits on the full queue
\* ends its wait, either with its record enqueued or with its record dropped
\* by the timeout; it never stays blocked on the queue.
C12_BlockedProducerEnqueuesOrDrops ==
    /\ \A h \in SocketHandlers :
          (hpc[h] = "blocked") ~> (hpc[h] \in {"enqueued", "dropped"})
    /\ [][\A h \in SocketHandlers :
             hpc[h] = "blocked" /\ hpc'[h] = "dropped" => Len(eventChan) = QueueCap]_vars

\* C13 (as claimed): an HTTP POST that finds the queue full waits for a slot
\* as a socket producer does; it is rejected only out of that wait.
C13_HTTPProducerWaitsBeforeRejecting ==
    [][\A h \in HTTPHandlers :
          hpc[h] # "rejected" /\ hpc'[h] = "rejected" => hpc[h] = "blocked"]_vars

(***************************************************************************)
(* The answers of handleExecutions.                                        *)
(***************************************************************************)
\* the requests handleExecutions has been handed and has not yet answered
Requests == {"reading", "readingBad"} \cup OtherMethods

\* the outcomes in which handleExecutions wrote a status code
Answered == {"enqueued", "malformed", "rejected", "notAllowed", "listed"}

\* a handler that answers 202 whatever the select did
StatusOf_AcceptsWhenFull(outcome) ==
    CASE outcome = "enqueued" -> 202
      [] outcome = "malformed" -> 400
      [] outcome = "rejected" -> 202
      [] outcome = "notAllowed" -> 405
      [] outcome = "listed" -> 200

\* the status code handleExecutions writes, lines 266-289
StatusOf(outcome) ==
    CASE outcome = "enqueued" -> 202
      [] outcome = "malformed" -> 400
      [] outcome = "rejected" -> 503
      [] outcome = "notAllowed" -> 405
      [] outcome = "listed" -> 200

\* C14: whenever handleExecutions answers a request, the status is 202 exactly
\* when the request was a POST whose record was placed in the queue, 400
\* exactly when its body was malformed, 503 exactly when it was a well-formed
\* POST that found the queue full, 405 exactly when the method was neither GET
\* nor POST; the queue changes only when the answer is 202.
C14_StatusTellsQueueOutcome ==
    [][\A h \in HTTPHandlers :
          hpc[h] \in Requests /\ hpc'[h] # hpc[h] =>
             IF hpc'[h] \in Answered
             THEN LET status == StatusOf(hpc'[h])
                      placed == eventChan' = Append(eventChan, WireRecord(h))
                  IN /\ (status = 202) <=> (hpc[h] = "reading" /\ placed)
                     /\ (status = 400) <=> (hpc[h] = "readingBad")
                     /\ (status = 503) <=>
                           (hpc[h] = "reading" /\ Len(eventChan) = QueueCap)
                     /\ (status = 405) <=> (hpc[h] \notin {"GET", "reading", "readingBad"})
                     /\ (status # 202) => eventChan' = eventChan
             ELSE eventChan' = eventChan]_vars

\* C14: a POST has been answered 503 and the queue is full.
C14_Witness ==
    \E h \in HTTPHandlers :
        /\ hpc[h] = "rejected"
        /\ StatusOf(hpc[h]) = 503
        /\ Len(eventChan) = QueueCap

(***************************************************************************)
(* GetExecutions: the query, and the GET handler that calls it.            *)
(***************************************************************************)
\* a nil *time.Time, and a pointer to the time t
NoTime == [set |-> FALSE]
TimeAt(t) == [set |-> TRUE, t |-> t]
TimeBounds == {NoTime} \cup {TimeAt(t) : t \in Times}

\* storage.QueryOptions (Offset, SortBy and SortOrder are never read)
QueryOptions ==
    [Tool : {""} \cup Tools, Package : {""} \cup Pkgs,
     Since : TimeBounds, Until : TimeBounds, Limit : 0..MaxExecs]

NoFilter == [Tool |-> "", Package |-> "", Since |-> NoTime, Until |-> NoTime, Limit |-> 0]

\* a filter that passes a record which satisfies the tool or the package filter
Matches_ToolOrPackage(opts, exec) ==
    /\ \/ opts.Tool = "" \/ exec.Tool = opts.Tool
       \/ opts.Package # "" /\ Names(exec, opts.Package)
    /\ ~(opts.Since.set /\ exec.Timestamp < opts.Since.t)
    /\ ~(opts.Until.set /\ exec.Timestamp > opts.Until.t)

\* lines 142-165: the record passes every filter that is set
Matches(opts, exec) ==
    /\ ~(opts.Tool # "" /\ exec.Tool # opts.Tool)
    /\ ~(opts.Package # "" /\ ~Names(exec, opts.Package))
    /\ ~(opts.Since.set /\ exec.Timestamp < opts.Since.t)
    /\ ~(opts.Until.set /\ exec.Timestamp > opts.Until.t)

\* lines 139-168: the matching records, in stored order
Filtered(d, opts) == SelectSeq(d.Executions, LAMBDA exec : Matches(opts, exec))

\* lines 170-172: sort.Slice with less = Timestamp.After is not stable: any
\* arrangement in which no record precedes a newer one
SortSlice(results) ==
    {p \in {[i \in 1..Len(results) |-> results[f[i]]] : f \in Permutations(1..Len(results))} :
        \A i, j \in 1..Len(p) : i < j => ~(p[j].Timestamp > p[i].Timestamp)}

\* a truncation that keeps the end of the list
Truncate_Tail(results, limit) ==
    IF limit > 0 /\ Len(results) > limit
    THEN SubSeq(results, Len(results) - limit + 1, Len(results))
    ELSE results

\* lines 174-176
Truncate(results, limit) ==
    IF limit > 0 /\ Len(results) > limit THEN SubSeq(results, 1, limit) ELSE results

\* the lists GetExecutions can return
GetExecutionsResults(d, opts) ==
    {Truncate(p, opts.Limit) : p \in SortSlice(Filtered(d, opts))}

\* A query changes nothing but the record of the last operation, so one query
\* after each change of the document stands for every sequence of queries.
QueryOps == {"GetExecutions", "GET /api/v1/executions"}
FirstQuery == lastOp.op \notin QueryOps

\* GetExecutions holds the read lock
CallGetExecutions ==
    /\ LockFree /\ FirstQuery
    /\ \E opts \in QueryOptions : \E results \in GetExecutionsResults(data, opts) :
          lastOp' = [op |-> "GetExecutions", arg |-> opts, done |-> TRUE, err |-> FALSE,
                     at |-> "idle", result |-> results]
    /\ UNCHANGED <<data, fs, savePc, saveOwner, prevLive>>
    /\ UNCHANGED <<dvars, bvars>>

\* handleExecutions, lines 254-263: the options are built from the tool,
\* package and limit parameters of the URL; no other parameter is read
OptionsOfQuery(query) ==
    [Tool |-> query.Tool, Package |-> query.Package, Since |-> NoTime, Until |-> NoTime,
     Limit |-> query.Limit]

\* handleExecutions, lines 253-272: GET /api/v1/executions?tool=&package=&since=&until=&limit=
HandleExecutionsGet ==
    /\ LockFree /\ FirstQuery
    /\ \E query \in QueryOptions :
          \E results \in GetExecutionsResults(data, OptionsOfQuery(query)) :
             lastOp' = [op |-> "GET /api/v1/executions", arg |-> query, done |-> TRUE,
                        err |-> FALSE, at |-> "idle", result |-> results]
    /\ UNCHANGED <<data, fs, savePc, saveOwner, prevLive>>
    /\ UNCHANGED <<dvars, bvars>>

\* the records appended before a query
QueryRecords == {r \in Records : r.PackagesAffected \in {<<>>, <<"express">>}}

CallAddExecutionQuery == CallAddExecutionFrom(QueryRecords)

NextQuery == CallAddExecutionQuery \/ SaveStep \/ CallGetExecutions \/ HandleExecutionsGet

QuerySpec == Init /\ [][NextQuery]_vars

RecordsOf(results) == {results[i] : i \in 1..Len(results)}

Queried == lastOp.op = "GetExecutions"

\* C15 (as claimed): a query filtered by since and until alone returns a stored
\* record exactly when its timestamp is at or after since and strictly before
\* until.
C15_SinceInclusiveUntilExclusive ==
    Queried /\ lastOp.arg.Tool = "" /\ lastOp.arg.Package = "" /\ lastOp.arg.Limit = 0 =>
        \A i \in 1..Len(data.Executions) :
            LET exec == data.Executions[i]
                since == lastOp.arg.Since
                until == lastOp.arg.Until
            IN exec \in RecordsOf(lastOp.result) <=>
                  /\ (since.set => exec.Timestamp >= since.t)
                  /\ (until.set => exec.Timestamp < until.t)

\* the records a query returns when one filter alone is set
ReturnedFor(opts) ==
    UNION {RecordsOf(results) : results \in GetExecutionsResults(data, opts)}

\* C16: with no limit, the set of records a query returns for any combination
\* of the tool, package, since and until filters is the intersection of the sets
\* returned by the queries that set each of these filters alone.
C16_FiltersCompose ==
    Queried /\ lastOp.arg.Limit = 0 =>
        RecordsOf(lastOp.result) =
            ReturnedFor([NoFilter EXCEPT !.Tool = lastOp.arg.Tool])
            \cap ReturnedFor([NoFilter EXCEPT !.Package = lastOp.arg.Package])
            \cap ReturnedFor([NoFilter EXCEPT !.Since = lastOp.arg.Since])
            \cap ReturnedFor([NoFilter EXCEPT !.Until = lastOp.arg.Until])

\* C16: a query with a tool, a package and both time filters set has returned a
\* record and left another stored record out.
C16_Witness ==
    /\ Queried /\ lastOp.arg.Limit = 0
    /\ lastOp.arg.Tool # "" /\ lastOp.arg.Package # ""
    /\ lastOp.arg.Since.set /\ lastOp.arg.Until.set
    /\ Len(lastOp.result) = 1
    /\ Len(data.Executions) = 2

CountAt(results, t) == Cardinality({i \in 1..Len(results) : results[i].Timestamp = t})

\* C17: a query returns its matches newest first; with a limit L > 0 it returns
\* min(L, matches) records and no match it leaves out is newer than a record
\* it returns; with limit 0 it returns every match.
C17_NewestFirstAndLimited ==
    Queried =>
        LET results == lastOp.result
            matches == Filtered(data, lastOp.arg)
            limit == lastOp.arg.Limit
        IN /\ \A i, j \in 1..Len(results) :
                  i < j => results[i].Timestamp >= results[j].Timestamp
           /\ RecordsOf(results) \subseteq RecordsOf(matches)
           /\ Len(results) = IF limit > 0 /\ limit < Len(matches) THEN limit
                             ELSE Len(matches)
           /\ \A t \in Times :
                  /\ CountAt(results, t) <= CountAt(matches, t)
                  /\ CountAt(results, t) < CountAt(matches, t) =>
                        \A i \in 1..Len(results) : results[i].Timestamp >= t

\* C17: a query limited to one record has returned the newer of two matches
\* that were stored oldest first.
C17_Witness ==
    /\ Queried /\ lastOp.arg.Limit = 1
    /\ Len(Filtered(data, lastOp.arg)) = 2
    /\ Len(lastOp.result) = 1
    /\ data.Executions[1].Timestamp < data.Executions[2].Timestamp
    /\ lastOp.result[1] = data.Executions[2]

\* C18 (as claimed): the records GET /api/v1/executions answers with are those
\* the storage query returns for the request's filters, since and until
\* included.
C18_GetAppliesSinceAndUntil ==
    lastOp.op = "GET /api/v1/executions" =>
        lastOp.result \in GetExecutionsResults(data, lastOp.arg)

(***************************************************************************)
(* Cleanup.                                                                *)
(***************************************************************************)
\* the step in which Cleanup rewrites the list, before it saves
CleanupActs == savePc = "idle" /\ savePc' = "writing" /\ lastOp'.op = "Cleanup"

\* the positions of the records stamped after the bound
Later(execs, bound) == {i \in 1..Len(execs) : execs[i].Timestamp > bound}

\* C19: Cleanup(b) removes exactly the executions stamped at or before b, keeps
\* the others in their stored order, and leaves every PackageInfo as it was.
C19_CleanupRemovesOldKeepsRest ==
    [][CleanupActs =>
          LET old == data.Executions
              new == data'.Executions
              bound == lastOp'.arg
          IN /\ Later(new, bound) = 1..Len(new)
             /\ Len(new) = Cardinality(Later(old, bound))
             /\ \E f \in [1..Len(new) -> Later(old, bound)] :
                   /\ \A i, j \in 1..Len(new) : i < j => f[i] < f[j]
                   /\ \A i \in 1..Len(new) : new[i] = old[f[i]]
             /\ data'.Packages = data.Packages]_vars

\* C19: a cleanup has removed the older of two stored executions, one of them
\* stamped exactly at the bound, and kept the newer; packages are recorded.
C19_Witness ==
    /\ lastOp.op = "Cleanup" /\ lastOp.done /\ ~lastOp.err
    /\ lastOp.arg = 1
    /\ Appended(data) = 2
    /\ Len(data.Executions) = 1
    /\ data.Executions[1].Timestamp = 2
    /\ DOMAIN data.Packages # {}

(***************************************************************************)
(* Backup, and Restore on a fresh storage engine.                          *)
(***************************************************************************)
\* Backup, lines 325-341: under the read lock the document is marshalled and
\* written to the backup path; a failed write leaves an incomplete file
CallBackup ==
    /\ LockFree
    /\ \E written \in BOOLEAN :
          /\ backupFile' = FileOf(Marshal(data), written)
          /\ lastOp' = [op |-> "Backup", arg |-> NoRec, done |-> TRUE, err |-> ~written,
                        at |-> "idle"]
    /\ backedUp' = data
    /\ UNCHANGED <<data, fs, savePc, saveOwner, prevLive, fresh, cli, tasks, dvars, nvars>>

\* the outcomes of save() on the fresh engine
SaveOutcomes == {"writeFailed", "renameFailed", "saved"}

\* NewJSONStorage and Initialize where no file exists, then Restore(backup path),
\* lines 343-359: nothing else touches the fresh engine's files
FreshRestore ==
    /\ backupFile.exists
    /\ LET initial == FileOf(Marshal(EmptyData), TRUE)
       IN IF Parses(backupFile)
          THEN \E outcome \in SaveOutcomes :
                  LET d2 == Unmarshal(backupFile.doc)
                  IN fresh' = [made |-> TRUE, read |-> TRUE, source |-> backedUp,
                               data |-> d2,
                               live |-> IF outcome = "saved"
                                        THEN FileOf(Marshal(d2), TRUE) ELSE initial,
                               err |-> outcome # "saved"]
          ELSE fresh' = [made |-> TRUE, read |-> FALSE, source |-> backedUp,
                         data |-> EmptyData, live |-> initial, err |-> TRUE]
    /\ UNCHANGED <<svars, dvars, backupFile, backedUp, cli, tasks, nvars>>

NextRoundTrip == CallAddExecutionQuery \/ SaveStep \/ CallBackup \/ FreshRestore

RoundTripSpec == Init /\ [][NextRoundTrip]_vars

\* the fresh engine's Restore has read a backup that Backup wrote in full
Restored == fresh.made /\ fresh.read

RestoreCalled == savePc = "idle" /\ lastOp' # lastOp /\ lastOp'.op = "Restore"

\* C21: Restore of a missing file, or of a file that does not hold a whole
\* JSON document, returns an error at once and leaves the in-memory document
\* and the files as they were.
C21_FailedRestoreChangesNothing ==
    [][RestoreCalled /\ ~(lastOp'.arg.exists /\ lastOp'.arg.complete) =>
          /\ lastOp'.done /\ lastOp'.err
          /\ data' = data
          /\ fs' = fs
          /\ savePc' = "idle"]_vars

\* C21: Restore of a truncated file has returned an error while the engine
\* holds a stored execution.
C21_Witness ==
    /\ lastOp.op = "Restore" /\ lastOp.done /\ lastOp.err
    /\ lastOp.arg.exists /\ ~lastOp.arg.complete
    /\ Len(data.Executions) > 0
    /\ fs.live.doc = Marshal(data)

\* the step in which Backup runs
BackupCalled == lastOp' # lastOp /\ lastOp'.op = "Backup"

\* C22: Backup changes neither the in-memory document nor the live file (nor
\* the temporary file); when it returns no error the backup file holds the
\* current document.
C22_BackupOnlyWritesBackupFile ==
    [][BackupCalled =>
          /\ data' = data
          /\ fs' = fs
          /\ ~lastOp'.err =>
                /\ backupFile'.exists /\ backupFile'.complete
                /\ Unmarshal(backupFile'.doc) = data]_vars

\* C22: a backup of a document with executions and packages has been written
\* without error.
C22_Witness ==
    /\ lastOp.op = "Backup" /\ ~lastOp.err
    /\ Len(data.Executions) > 0
    /\ DOMAIN data.Packages # {}
    /\ backupFile.complete

(***************************************************************************)
(* A CLI command beside the running daemon. The command is a process of    *)
(* its own: it constructs its own storage engine over the same file, with  *)
(* its own in-memory document and its own lock. Its save() is taken as one *)
(* step, at a moment when the daemon's engine is not inside save().        *)
(***************************************************************************)
Commands == {"query", "cleanup"}

\* main.go, lines 306 and 648: NewJSONStorage, Initialize, load
CLIOpen ==
    /\ cli.pc = "none" /\ savePc = "idle"
    /\ Parses(fs.live)
    /\ \E cmd \in Commands :
          cli' = [cli EXCEPT !.pc = "open", !.cmd = cmd, !.data = Unmarshal(fs.live.doc)]
    /\ UNCHANGED <<svars, dvars, backupFile, backedUp, fresh, tasks, nvars>>

\* the command's save(): the temporary file is written and renamed
CLISave(d) == fs' = Rename(WriteFileEnd(WriteFileStart(fs, tempFile, Marshal(d)), tempFile),
                           tempFile, "live")

\* main.go, lines 312-331: GetExecutions; lines 654-657: Cleanup, which saves
CLIRun ==
    /\ cli.pc = "open" /\ savePc = "idle"
    /\ IF cli.cmd = "cleanup"
       THEN \E before \in Times :
               LET d2 == CleanupMem(cli.data, before)
               IN /\ cli' = [cli EXCEPT !.pc = "close", !.data = d2,
                                         !.bound = IF before > @ THEN before ELSE @]
                  /\ CLISave(d2)
       ELSE /\ cli' = [cli EXCEPT !.pc = "close"]
            /\ UNCHANGED fs
    /\ UNCHANGED <<data, savePc, saveOwner, lastOp, prevLive>>
    /\ UNCHANGED <<dvars, backupFile, backedUp, fresh, tasks, nvars>>

\* main.go, lines 310 and 652: the deferred store.Close(), which saves
CLIClose ==
    /\ cli.pc = "close" /\ savePc = "idle"
    /\ CLISave(cli.data)
    /\ cli' = [cli EXCEPT !.pc = "none"]
    /\ UNCHANGED <<data, savePc, saveOwner, lastOp, prevLive>>
    /\ UNCHANGED <<dvars, backupFile, backedUp, fresh, tasks, nvars>>

NextShared == CallAddExecutionFew \/ SaveStep \/ CLIOpen \/ CLIRun \/ CLIClose

SharedFileSpec == Init /\ [][NextShared]_vars

\* the live file holds the record
InLiveFile(record) ==
    \E i \in 1..Len(fs.live.doc.executions) :
        UnmarshalRecord(fs.live.doc.executions[i]) = record

\* C23 (as claimed): a daemon append that has completed stays reflected in
\* the live file after any later write by the daemon or by a CLI command,
\* unless a cleanup whose bound covers the record has removed it.
C23_NoLostUpdate ==
    ( /\ lastOp.op = "AddExecution" /\ lastOp.done /\ ~lastOp.err
      /\ lastOp.arg.Timestamp > cli.bound )
        => InLiveFile(lastOp.arg)

(***************************************************************************)
(* Concurrent callers of AddExecution on one storage engine, and a reader. *)
(* Here the in-memory update is taken in two steps inside the lock: the    *)
(* list is appended to (line 115), then the counters and the packages are  *)
(* updated (lines 116-128) and save() is called.                           *)
(***************************************************************************)
Tasks == DOMAIN tasks

TaskRecord(t) ==
    [ID |-> t, Tool |-> IF t = "t3" THEN "go" ELSE "npm", Timestamp |-> 1,
     PackagesAffected |-> <<"express">>]

\* lines 108-115: j.mu.Lock(), the record is appended to the list
TaskLockAndAppend(t) ==
    /\ tasks[t] = "ready"
    /\ LockFree
    /\ data' = [data EXCEPT !.Executions = Append(@, WithID(TaskRecord(t), "exec_gen"))]
    /\ savePc' = "appending"
    /\ saveOwner' = t
    /\ lastOp' = [op |-> "AddExecution", arg |-> TaskRecord(t), done |-> FALSE,
                  err |-> FALSE, at |-> "idle"]
    /\ tasks' = [tasks EXCEPT ![t] = "inAppend"]
    /\ UNCHANGED <<fs, prevLive, dvars, backupFile, backedUp, fresh, cli, nvars>>

\* lines 116-130: the counters and the packages are updated, save() begins
TaskCount(t) ==
    /\ savePc = "appending" /\ saveOwner = t
    /\ LET before == [data EXCEPT !.Executions = SubSeq(@, 1, Len(@) - 1)]
           d2 == AddExecutionMem(before, TaskRecord(t))
       IN /\ data' = d2
          /\ SaveBegin(t, "AddExecution", TaskRecord(t), d2)
    /\ UNCHANGED <<dvars, bvars>>

\* line 130: save() has returned and the deferred j.mu.Unlock() has run
TaskReturn(t) ==
    /\ tasks[t] = "inAppend" /\ saveOwner # t
    /\ tasks' = [tasks EXCEPT ![t] = "done"]
    /\ UNCHANGED <<svars, dvars, backupFile, backedUp, fresh, cli, nvars>>

\* a reader that does not take the lock
CanRead_Unlocked == TRUE

\* j.mu.RLock(): no writer holds the lock
CanRead == LockFree

\* GetExecutions and GetStatistics under the read lock: the reader sees the
\* list and the statistics as they are
TaskRead ==
    /\ CanRead
    /\ lastOp' = [op |-> "Read", arg |-> NoRec, done |-> TRUE, err |-> FALSE,
                  at |-> "idle", result |-> data]
    /\ UNCHANGED <<data, fs, savePc, saveOwner, prevLive, dvars, bvars>>

NextConcurrent ==
    \/ \E t \in Tasks : TaskLockAndAppend(t)
    \/ \E t \in Tasks : TaskCount(t)
    \/ \E t \in Tasks : TaskReturn(t)
    \/ SaveStep
    \/ TaskRead

ConcurrentSpec == Init /\ [][NextConcurrent]_vars

\* the list and the counters of a document reflect the same appends
SameAppends(d) ==
    /\ d.Statistics.TotalExecutions = Len(d.Executions)
    /\ \A tool \in Tools : Frequency(d, tool) = ExecutionsOf(d, tool)
    /\ \A tool \in Tools, name \in Pkgs :
          UsageCount(d, tool, name) = ExecutionsNaming(d, tool, name)

\* C24: when every concurrent caller of append has returned, each caller's
\* record is in the list exactly once and the counter has grown by the number
\* of callers; and what a concurrent reader sees is a document whose list and
\* counters reflect the same appends.
C24_ConcurrentAppendsAllCounted ==
    /\ (\A t \in Tasks : tasks[t] = "done") =>
          /\ \A t \in Tasks : Stored(TaskRecord(t)) = 1
          /\ Len(data.Executions) = Cardinality(Tasks)
          /\ data.Statistics.TotalExecutions = Cardinality(Tasks)
    /\ lastOp.op = "Read" => SameAppends(lastOp.result)

\* C24: every caller has returned, two of them after the third had taken the
\* lock, and a reader has read the document.
C24_Witness ==
    /\ \A t \in Tasks : tasks[t] = "done"
    /\ lastOp.op = "Read"
    /\ Len(lastOp.result.Executions) = Cardinality(Tasks)

(***************************************************************************)
(* Package aggregates under appends.                                       *)
(***************************************************************************)
\* the step in which AddExecution updates the in-memory document
AppendActs == savePc = "idle" /\ savePc' = "writing" /\ lastOp'.op = "AddExecution"

HasPackage(d, tool, name) == HasKey(d.Packages, tool) /\ HasKey(d.Packages[tool], name)

\* C25 (as claimed): an append that names a (tool, name) pair whose PackageInfo
\* exists raises its usage_count by exactly one and keeps its install date;
\* the entry stays the one entry of its pair.
C25_LaterAppendCountsOnce ==
    [][AppendActs =>
          \A tool \in Tools, name \in Pkgs :
              (HasPackage(data, tool, name) /\ lastOp'.arg.Tool = tool
                                           /\ Names(lastOp'.arg, name)) =>
                 /\ HasPackage(data', tool, name)
                 /\ data'.Packages[tool][name].UsageCount =
                        data.Packages[tool][name].UsageCount + 1
                 /\ data'.Packages[tool][name].InstallDate =
                        data.Packages[tool][name].InstallDate
                 /\ data'.Packages[tool][name].Name = name
                 /\ data'.Packages[tool][name].Tool = tool]_vars

(***************************************************************************)
(* Malformed socket payloads.                                              *)
(***************************************************************************)
\* C26: a socket connection whose payload does not decode ends without having
\* enqueued anything: its step changes neither the queue nor the stored
\* document nor the files, no other connection and no part of the daemon is
\* affected; the connection ends there, so its payload is never enqueued.
C26_MalformedPayloadAffectsNothing ==
    [][\A h \in SocketHandlers :
          hpc[h] = "readingBad" /\ hpc'[h] # hpc[h] =>
             /\ hpc'[h] = "malformed"
             /\ \A other \in Handlers \ {h} : hpc'[other] = hpc[other]
             /\ UNCHANGED <<eventChan, data, fs, crashed, stopped, ctxCancelled,
                            chanClosed, consumerPc, acceptPc, listenerOpen>>]_vars

\* C26: one connection's payload was malformed; another connection, accepted
\* in the same run, has had its record enqueued and stored, and the daemon is
\* running.
C26_Witness ==
    /\ hpc["s1"] = "malformed"
    /\ hpc["s2"] = "enqueued" /\ Stored(WireRecord("s2")) = 1
    /\ Stored(WireRecord("s1")) = 0
    /\ started /\ ~stopped /\ ~crashed /\ consumerPc = "waiting"

(***************************************************************************)
(* Construction: NewDaemon over whatever the storage path holds, and the   *)
(* registry's bulk initialize.                                             *)
(***************************************************************************)
MaxEnabled == 2

\* the names config.Monitoring.EnabledTools may hold; "pip" has no monitor
ToolNames == KnownTools \cup {"pip"}

EnabledLists == UNION {[1..n -> ToolNames] : n \in 0..MaxEnabled}

\* what the storage path may hold when the process starts
DiskFiles == RestoreFiles \cup {FileOf(Marshal(EmptyData), TRUE)}

\* Initialize taking every existing file for a missing one when it cannot use it
FileMissing_OrUnusable(f) == ~(f.exists /\ f.complete)

\* Initialize, line 37: os.Stat reports that the file does not exist
FileMissing(f) == ~f.exists

\* save() run to its end in one step; a failed write leaves an incomplete
\* temporary file, a failed rename a complete one
SavedFiles(files, d, outcome) ==
    LET begun == WriteFileStart(files, tempFile, Marshal(d))
    IN CASE outcome = "writeFailed" -> begun
         [] outcome = "renameFailed" -> WriteFileEnd(begun, tempFile)
         [] outcome = "saved" -> Rename(WriteFileEnd(begun, tempFile), tempFile, "live")

\* NewDaemon, lines 45-64: the loop over the enabled tools; an unknown name and
\* a monitor whose Initialize fails are logged and skipped
RECURSIVE RegisterEnabled(_, _, _, _)
RegisterEnabled(enabled, i, failing, monitors) ==
    IF i > Len(enabled) THEN monitors
    ELSE LET tool == enabled[i]
         IN IF tool \notin KnownTools \/ tool \in failing
            THEN RegisterEnabled(enabled, i + 1, failing, monitors)
            ELSE RegisterEnabled(enabled, i + 1, failing, monitors \cup {tool})

\* NewDaemon, lines 36-79: NewJSONStorage and Initialize (json.go, lines
\* 22-64): the directory is made, a missing file is created empty and saved,
\* an existing one is loaded; then the monitors are registered
NewDaemon ==
    /\ daemon.state = "none"
    /\ \E dirOk \in BOOLEAN, readOk \in BOOLEAN, outcome \in SaveOutcomes,
          enabled \in EnabledLists, failing \in SUBSET KnownTools :
          LET create == dirOk /\ FileMissing(fs.live)
              err == \/ ~dirOk
                     \/ create /\ outcome # "saved"
                     \/ ~create /\ ~(readOk /\ Parses(fs.live))
          IN /\ fs' = IF create THEN SavedFiles(fs, EmptyData, outcome) ELSE fs
             /\ data' = IF err \/ create THEN EmptyData ELSE Unmarshal(fs.live.doc)
             /\ daemon' = IF err THEN [state |-> "failed", enabled |-> <<>>, failing |-> {}]
                          ELSE [state |-> "created", enabled |-> enabled,
                                failing |-> failing]
             /\ registry' = IF err THEN registry
                            ELSE [registry EXCEPT
                                    !.monitors = RegisterEnabled(enabled, 1, failing, {})]
             /\ lastOp' = [op |-> "NewDaemon",
                           arg |-> [dirOk |-> dirOk, readOk |-> readOk],
                           done |-> TRUE, err |-> err, at |-> "idle"]
    /\ UNCHANGED <<savePc, saveOwner, prevLive, dvars, backupFile, backedUp, fresh,
                   cli, tasks, parsed, reader>>

\* the orders in which a range over the registry's map may visit its keys
Orders(monitors) ==
    {order \in [1..Cardinality(monitors) -> monitors] :
        \A i, j \in DOMAIN order : order[i] = order[j] => i = j}

\* InitializeAll, process.go lines 302-309: the monitors Initialize has
\* returned nil for when the loop ends, which is at the first error
RECURSIVE InitializedIn(_, _, _)
InitializedIn(order, i, failing) ==
    IF i > Len(order) THEN {}
    ELSE IF order[i] \in failing THEN {}
         ELSE {order[i]} \cup InitializedIn(order, i + 1, failing)

\* a caller runs the registry's bulk initialize
InitializeAll ==
    /\ daemon.state = "created"
    /\ registry.pc = "idle"
    /\ \E order \in Orders(registry.monitors), failing \in SUBSET registry.monitors :
          registry' = [registry EXCEPT !.initialized = InitializedIn(order, 1, failing),
                                       !.failing = failing,
                                       !.pc = "returned"]
    /\ UNCHANGED <<svars, dvars, backupFile, backedUp, fresh, cli, tasks, daemon, parsed, reader>>

\* the process starts with nothing constructed, over any storage file
InitConstruct ==
    /\ data = EmptyData
    /\ \E f \in DiskFiles : fs = [live |-> f, tmp |-> NoFile]
    /\ lastOp = [op |-> "none", arg |-> NoRec, done |-> TRUE, err |-> FALSE,
                 at |-> "idle"]
    /\ InitTasks
    /\ daemon = [state |-> "none", enabled |-> <<>>, failing |-> {}]
    /\ registry = NewMonitorRegistry

NextConstruct == NewDaemon \/ InitializeAll \/ Start

ConstructSpec == InitConstruct /\ [][NextConstruct]_vars

\* the step in which NewDaemon runs
NewDaemonActs == daemon.state = "none" /\ daemon'.state # "none"

\* C27: when the storage file exists and cannot be read or parsed, NewDaemon
\* fails, leaves every file as it was and registers nothing; NewDaemon writes
\* only where no file existed, and what it puts there is the empty document;
\* a daemon that was not created is never started.
C27_UnusableFileFailsConstruction ==
    [][/\ NewDaemonActs =>
            /\ ( /\ fs.live.exists
                 /\ ~(lastOp'.arg.readOk /\ fs.live.complete) ) =>
                   /\ daemon'.state = "failed" /\ lastOp'.err
                   /\ fs' = fs
                   /\ registry' = registry
            /\ fs' # fs => ~fs.live.exists
            /\ fs'.live # fs.live => fs'.live = FileOf(Marshal(EmptyData), TRUE)
       /\ daemon'.state # "created" => ~started' /\ ~pidFile']_vars

\* C27: NewDaemon has failed over a file that exists and does not parse, and
\* the file is as it was.
C27_Witness ==
    /\ daemon.state = "failed" /\ lastOp.op = "NewDaemon" /\ lastOp.err
    /\ lastOp.arg.dirOk /\ lastOp.arg.readOk
    /\ fs.live.exists /\ ~fs.live.complete
    /\ fs.tmp = NoFile
    /\ ~started

(***************************************************************************)
(* The lifecycle.                                                          *)
(***************************************************************************)
\* the state of the lifecycle, as the daemon's own fields tell it
Phase ==
    IF ~started THEN "Created"
    ELSE CASE once = "fresh" -> "Running"
           [] once = "running" -> "Stopping"
           [] once = "done" -> "Stopped"

LifecycleSteps ==
    {<<"Created", "Running">>, <<"Running", "Stopping">>, <<"Stopping", "Stopped">>}

\* C28 (as claimed): the lifecycle advances only along Created, Running,
\* Stopping, Stopped, and once Stop has completed no step starts the consumer,
\* the socket listener, the HTTP task or the signal task again, nor puts the
\* PID file back.
C28_StoppedIsTerminal ==
    [][/\ Phase' # Phase => <<Phase, Phase'>> \in LifecycleSteps
       /\ Phase = "Stopped" =>
             /\ consumerPc' # "waiting"
             /\ acceptPc' # "accepting" /\ ~listenerOpen'
             /\ httpPc' # "serving" /\ ~httpOpen'
             /\ sigPc' # "waiting"
             /\ ~pidFile']_vars

\* Daemon.IsStopped, lines 151-153
IsStopped == stopped

\* a call of Stop has been made
StopRequested == \E c \in StopCallers : stopPc[c] # "idle"

\* a call of Stop has returned
StopReturned == \E c \in StopCallers : stopPc[c] = "returned"

\* C29 (as claimed): the PID file exists from the end of a successful Start
\* until Stop completes and is absent once a call of Stop has returned;
\* IsStopped is false from Start to the first request to stop, and true once
\* Stop has returned.
C29_PIDFileAndIsStopped ==
    /\ (started /\ once # "done") => pidFile
    /\ StopReturned => ~pidFile
    /\ (started /\ ~StopRequested) => ~IsStopped
    /\ StopReturned => IsStopped

(***************************************************************************)
(* Monitors.                                                               *)
(***************************************************************************)
\* C30 (as claimed): NewDaemon registers every enabled tool that has a monitor
\* whose Initialize succeeds, whatever else the list names; and when the
\* registry's bulk initialize has returned, every registered monitor whose
\* Initialize does not fail has been initialized.
C30_OneFailureSparesTheOthers ==
    /\ daemon.state = "created" =>
          \A i \in DOMAIN daemon.enabled :
              daemon.enabled[i] \in KnownTools \ daemon.failing =>
                 daemon.enabled[i] \in registry.monitors
    /\ registry.pc = "returned" =>
          \A m \in registry.monitors \ registry.failing : m \in registry.initialized

(***************************************************************************)
(* The monitors' command parsers. An argument is a sequence of segments: a *)
(* segment is one of the characters the parsers look at ("-", "@", "/",    *)
(* ".") or a run of other characters, so "express@4" is                    *)
(* <<"express", "@", "4">> and "./..." is <<".", "/", ".", ".", ".">>.     *)
(***************************************************************************)
MaxArgs == 3

W(word) == <<word>>
Short(letter) == <<"-", letter>>
Long(word) == <<"-", "-", word>>

\* the arguments the model draws command lines from
ArgTokens ==
    {W("install"), W("uninstall"), W("upgrade"), W("get"), W("test"), W("frob"),
     Long("registry"), Long("cask"), Short("u"),
     W("express"), <<"express", "@", "4">>, <<"@", "types", "/", "node", "@", "20">>,
     <<".">>, <<".", "/", ".", ".", ".">>, <<".", ".", ".">>,
     <<"github", ".", "com", "/", "cobra">>}

ArgLists == UNION {[1..n -> ArgTokens] : n \in 0..MaxArgs}

\* strings.HasPrefix(arg, c) for a one-character c
HasPrefix(arg, c) == Len(arg) >= 1 /\ arg[1] = c

\* strings.HasSuffix(arg, "." + ext)
HasSuffix(arg, ext) == Len(arg) >= 2 /\ arg[Len(arg) - 1] = "." /\ arg[Len(arg)] = ext

\* strings.Contains(arg, c) for a one-character c
Contains(arg, c) == \E i \in 1..Len(arg) : arg[i] = c

\* strings.Index(arg, c), counted from 1; 0 when c does not occur
Index(arg, c) ==
    IF Contains(arg, c)
    THEN CHOOSE i \in 1..Len(arg) : arg[i] = c /\ \A j \in 1..(i - 1) : arg[j] # c
    ELSE 0

\* strings.SplitN(arg, c, n), n > 0
RECURSIVE SplitN(_, _, _)
SplitN(arg, c, n) ==
    IF n <= 1 \/ ~Contains(arg, c) THEN <<arg>>
    ELSE LET i == Index(arg, c)
         IN <<SubSeq(arg, 1, i - 1)>> \o SplitN(SubSeq(arg, i + 1, Len(arg)), c, n - 1)

\* contains(slice, item), part_006 lines 312-319
contains(slice, item) == \E i \in 1..Len(slice) : slice[i] = item

\* args[1:]
Rest(args) == SubSeq(args, 2, Len(args))

\* a parser that takes no flag to have a value
ValueFlags_None == {}

\* npm.go, line 173: the flags whose value is the next argument
ValueFlags == {Long("registry"), Long("scope"), Long("tag")}

\* extractPackagesFromNPMArgs, npm.go lines 160-199
RECURSIVE NPMPackagesFrom(_, _, _, _)
NPMPackagesFrom(args, i, skipNext, packages) ==
    IF i > Len(args) THEN packages
    ELSE LET arg == args[i]
         IN IF skipNext THEN NPMPackagesFrom(args, i + 1, FALSE, packages)
            ELSE IF HasPrefix(arg, "-")
            THEN NPMPackagesFrom(args, i + 1, arg \in ValueFlags, packages)
            ELSE IF Contains(arg, "@")
            THEN IF HasPrefix(arg, "@")
                 THEN LET parts == SplitN(arg, "@", 3)
                      IN IF Len(parts) >= 2
                         THEN NPMPackagesFrom(args, i + 1, FALSE,
                                              Append(packages, <<"@">> \o parts[2]))
                         ELSE NPMPackagesFrom(args, i + 1, FALSE, packages)
                 ELSE NPMPackagesFrom(args, i + 1, FALSE,
                                      Append(packages, SplitN(arg, "@", 2)[1]))
            ELSE NPMPackagesFrom(args, i + 1, FALSE, Append(packages, arg))

extractPackagesFromNPMArgs(args) == NPMPackagesFrom(args, 1, FALSE, <<>>)

\* the arguments fmt.Sscanf reads a number from
NumberTokens == {W("0"), W("1"), W("2")}

\* extractDepth, npm.go lines 201-211: the argument after the first "--depth"
\* that is followed by a number, or none
extractDepth(args) ==
    LET at == {i \in 1..(Len(args) - 1) :
                  args[i] = Long("depth") /\ args[i + 1] \in NumberTokens}
    IN IF at = {} THEN <<>>
       ELSE <<args[(CHOOSE i \in at : \A j \in at : i <= j) + 1]>>

\* a metadata map with the given key set when the condition holds
PutIf(meta, cond, key, value) == IF cond THEN MapPut(meta, key, value) ELSE meta

\* a parser that does not record the subcommand
WithSubcommand_Dropped(meta, subcommand) == meta

\* record.Metadata["subcommand"] = subcommand
WithSubcommand(meta, subcommand) == MapPut(meta, "subcommand", subcommand)

NPMInstall == {W("install"), W("i"), W("add")}
NPMUninstall == {W("uninstall"), W("remove"), W("rm"), W("r"), W("un")}
NPMUpdate == {W("update"), W("up"), W("upgrade")}
NPMList == {W("list"), W("ls"), W("la"), W("ll")}
NPMSearch == {W("search"), W("s"), W("se"), W("find")}
NPMRun == {W("run"), <<"run", "-", "script">>}
NPMTest == {W("test"), W("t"), W("tst")}
NPMNamed == {W("start"), W("build"), W("fund"), W("outdated")}
NPMLink == {W("link"), W("ln")}

NPMSubcommands ==
    NPMInstall \cup NPMUninstall \cup NPMUpdate \cup NPMList \cup NPMSearch \cup NPMRun
    \cup NPMTest \cup NPMNamed \cup NPMLink \cup {W("publish"), W("audit")}

\* the record ParseCommand starts from
NewRecord(tool, args) ==
    [Tool |-> tool, Args |-> args, Metadata |-> EmptyMap, PackagesAffected |-> <<>>]

\* NPMMonitor.ParseCommand, npm.go lines 60-158
NPMParseCommand(args) ==
    IF Len(args) = 0 THEN NewRecord("npm", args)
    ELSE
    LET sub == args[1]
        isGlobal == contains(args, Short("g")) \/ contains(args, Long("global"))
        meta == MapPut(WithSubcommand(EmptyMap, sub), "global", isGlobal)
        packages == extractPackagesFromNPMArgs(Rest(args))
        named == Len(args) > 1 /\ ~HasPrefix(args[2], "-")
        r == NewRecord("npm", args)
    IN CASE sub \in NPMInstall ->
              [r EXCEPT !.PackagesAffected = packages,
                        !.Metadata =
                           PutIf(PutIf(MapPut(meta, "action", "install"),
                                       \/ contains(args, <<"-", "-", "save", "-", "dev">>)
                                       \/ contains(args, Short("D")),
                                       "dev_dependency", TRUE),
                                 \/ contains(args, <<"-", "-", "save", "-", "optional">>)
                                 \/ contains(args, Short("O")),
                                 "optional_dependency", TRUE)]
         [] sub \in NPMUninstall ->
              [r EXCEPT !.PackagesAffected = packages,
                        !.Metadata = MapPut(meta, "action", "uninstall")]
         [] sub \in NPMUpdate ->
              [r EXCEPT !.PackagesAffected = packages,
                        !.Metadata = PutIf(meta, Len(packages) = 0, "update_all", TRUE)]
         [] sub \in NPMList ->
              [r EXCEPT !.Metadata = PutIf(MapPut(meta, "action", "list"),
                                           extractDepth(args) # <<>>,
                                           "depth", extractDepth(args))]
         [] sub \in NPMSearch ->
              [r EXCEPT !.Metadata = PutIf(meta, Len(args) > 1, "search_term", Rest(args))]
         [] sub \in NPMRun ->
              [r EXCEPT !.Metadata = IF Len(args) > 1 THEN MapPut(meta, "script", args[2])
                                ELSE meta]
         [] sub \in NPMTest ->
              [r EXCEPT !.Metadata = MapPut(meta, "action", "test")]
         [] sub \in NPMNamed ->
              [r EXCEPT !.Metadata = MapPut(meta, "action", sub[1])]
         [] sub = W("publish") ->
              [r EXCEPT !.PackagesAffected = IF named THEN <<args[2]>> ELSE <<>>,
                        !.Metadata = MapPut(meta, "action", "publish")]
         [] sub \in NPMLink ->
              [r EXCEPT !.PackagesAffected = IF named THEN <<args[2]>> ELSE <<>>,
                        !.Metadata = MapPut(meta, "action", "link")]
         [] sub = W("audit") ->
              [r EXCEPT !.Metadata = PutIf(MapPut(meta, "action", "audit"),
                                           contains(args, Long("fix")), "fix", TRUE)]
         [] OTHER -> [r EXCEPT !.Metadata = meta]

\* extractGoPackages, part_005 lines 149-176: the test for "/" or "." comes
\* first, and the argument is appended whole (pkgName is computed and dropped)
RECURSIVE GoPackagesFrom(_, _, _)
GoPackagesFrom(args, i, packages) ==
    IF i > Len(args) THEN packages
    ELSE LET arg == args[i]
         IN IF HasPrefix(arg, "-") THEN GoPackagesFrom(args, i + 1, packages)
            ELSE IF Contains(arg, "/") \/ Contains(arg, ".")
            THEN GoPackagesFrom(args, i + 1, Append(packages, arg))
            ELSE IF arg \in {<<".">>, <<".", "/", ".", ".", ".">>, <<".", ".", ".">>}
            THEN GoPackagesFrom(args, i + 1, packages)
            ELSE GoPackagesFrom(args, i + 1, Append(packages, arg))

extractGoPackages(args) == GoPackagesFrom(args, 1, <<>>)

\* extractOutputFlag: the argument after the first "-o" that has one
extractOutputFlag(args) ==
    LET at == {i \in 1..(Len(args) - 1) : args[i] = Short("o")}
    IN IF at = {} THEN <<>> ELSE args[(CHOOSE i \in at : \A j \in at : i <= j) + 1]

GoNamed == {W("fmt"), W("vet"), W("env"), W("version")}

GoSubcommands ==
    {W("get"), W("install"), W("mod"), W("build"), W("run"), W("test"), W("list"),
     W("clean")} \cup GoNamed

\* GoMonitor.ParseCommand, part_005 lines 53-147
GoParseCommand(args) ==
    IF Len(args) = 0 THEN NewRecord("go", args)
    ELSE
    LET sub == args[1]
        meta == WithSubcommand(EmptyMap, sub)
        packages == extractGoPackages(Rest(args))
        r == NewRecord("go", args)
    IN CASE sub = W("get") ->
              [r EXCEPT !.PackagesAffected = packages,
                        !.Metadata = PutIf(MapPut(meta, "action", "get"),
                                           contains(args, Short("u")), "update", TRUE)]
         [] sub = W("install") ->
              [r EXCEPT !.PackagesAffected = packages,
                        !.Metadata = MapPut(meta, "action", "install")]
         [] sub = W("mod") ->
              [r EXCEPT !.Metadata =
                   IF Len(args) <= 1 THEN meta
                   ELSE LET m2 == MapPut(meta, "mod_command", args[2])
                        IN CASE args[2] \in {W("download"), W("tidy"), W("vendor")} ->
                                  MapPut(m2, "action", <<"mod_", args[2][1]>>)
                             [] args[2] = W("init") /\ Len(args) > 2 ->
                                  MapPut(m2, "module", args[3])
                             [] OTHER -> m2]
         [] sub = W("build") ->
              [r EXCEPT !.Metadata = PutIf(MapPut(meta, "action", "build"),
                                           extractOutputFlag(args) # <<>>,
                                           "output", extractOutputFlag(args))]
         [] sub = W("run") ->
              [r EXCEPT !.Metadata =
                   IF Len(args) > 1 /\ HasSuffix(args[2], "go")
                   THEN MapPut(MapPut(meta, "action", "run"), "file", args[2])
                   ELSE MapPut(meta, "action", "run")]
         [] sub = W("test") ->
              [r EXCEPT !.PackagesAffected = packages,
                        !.Metadata = MapPut(meta, "action", "test")]
         [] sub = W("list") ->
              [r EXCEPT !.Metadata = PutIf(MapPut(meta, "action", "list"),
                                           contains(args, Short("m")), "modules", TRUE)]
         [] sub = W("clean") ->
              [r EXCEPT !.Metadata = PutIf(MapPut(meta, "action", "clean"),
                                           contains(args, Short("modcache")),
                                           "modcache", TRUE)]
         [] sub \in GoNamed ->
              [r EXCEPT !.Metadata = MapPut(meta, "action", sub[1])]
         [] OTHER -> [r EXCEPT !.Metadata = meta]

\* HomebrewMonitor.extractPackagesFromArgs, part_006 lines 174-185
RECURSIVE BrewPackagesFrom(_, _, _, _)
BrewPackagesFrom(args, i, flags, packages) ==
    IF i > Len(args) THEN packages
    ELSE LET arg == args[i]
         IN IF HasPrefix(arg, "-") THEN BrewPackagesFrom(args, i + 1, flags, packages)
            ELSE IF arg \notin flags
            THEN BrewPackagesFrom(args, i + 1, flags, Append(packages, arg))
            ELSE BrewPackagesFrom(args, i + 1, flags, packages)

extractPackagesFromArgs(args, flags) == BrewPackagesFrom(args, 1, flags, <<>>)

BrewKinds == {Long("cask"), Long("formula")}

BrewSubcommands ==
    {W("install"), W("uninstall"), W("remove"), W("rm"), W("upgrade"), W("reinstall"),
     W("tap"), W("untap"), W("list"), W("ls"), W("search"), W("info"), W("services")}

\* HomebrewMonitor.ParseCommand, part_006 lines 96-172
HomebrewParseCommand(args) ==
    IF Len(args) = 0 THEN NewRecord("homebrew", args)
    ELSE
    LET sub == args[1]
        meta == WithSubcommand(EmptyMap, sub)
        r == NewRecord("homebrew", args)
    IN CASE sub = W("install") ->
              [r EXCEPT !.PackagesAffected = extractPackagesFromArgs(Rest(args), BrewKinds),
                        !.Metadata = MapPut(meta, "type",
                                            IF contains(args, Long("cask"))
                                            THEN "cask" ELSE "formula")]
         [] sub \in {W("uninstall"), W("remove"), W("rm")} ->
              [r EXCEPT !.PackagesAffected =
                            extractPackagesFromArgs(Rest(args),
                                BrewKinds \cup {Long("force"),
                                                <<"-", "-", "ignore", "-", "dependencies">>}),
                        !.Metadata = MapPut(meta, "action", "uninstall")]
         [] sub = W("upgrade") ->
              IF Len(args) > 1 /\ ~HasPrefix(args[2], "-")
              THEN [r EXCEPT !.PackagesAffected =
                                 extractPackagesFromArgs(Rest(args), BrewKinds),
                             !.Metadata = meta]
              ELSE [r EXCEPT !.Metadata = MapPut(meta, "upgrade_all", TRUE)]
         [] sub = W("reinstall") ->
              [r EXCEPT !.PackagesAffected = extractPackagesFromArgs(Rest(args), BrewKinds),
                        !.Metadata = MapPut(meta, "action", "reinstall")]
         [] sub \in {W("tap"), W("untap")} ->
              [r EXCEPT !.Metadata = IF Len(args) > 1 THEN MapPut(meta, sub[1], args[2])
                                     ELSE meta]
         [] sub \in {W("list"), W("ls")} ->
              [r EXCEPT !.Metadata = MapPut(meta, "action", "list")]
         [] sub = W("search") ->
              [r EXCEPT !.Metadata = PutIf(meta, Len(args) > 1, "search_term", Rest(args))]
         [] sub = W("info") ->
              [r EXCEPT !.PackagesAffected = IF Len(args) > 1 THEN <<args[2]>> ELSE <<>>,
                        !.Metadata = meta]
         [] sub = W("services") ->
              [r EXCEPT !.PackagesAffected = IF Len(args) > 2 THEN <<args[3]>> ELSE <<>>,
                        !.Metadata = IF Len(args) > 1
                                     THEN MapPut(meta, "service_action", args[2])
                                     ELSE meta]
         [] OTHER -> [r EXCEPT !.Metadata = meta]

\* a caller hands one command line to a tool's monitor;
\* ParseCommand returns a record and, on every path, a nil error
ParseNPM ==
    /\ parsed.tool = "none"
    /\ \E args \in ArgLists :
          parsed' = [tool |-> "npm", args |-> args, record |-> NPMParseCommand(args),
                     err |-> FALSE]
    /\ UNCHANGED <<svars, dvars, backupFile, backedUp, fresh, cli, tasks, daemon, registry, reader>>

ParseGo ==
    /\ parsed.tool = "none"
    /\ \E args \in ArgLists :
          parsed' = [tool |-> "go", args |-> args, record |-> GoParseCommand(args),
                     err |-> FALSE]
    /\ UNCHANGED <<svars, dvars, backupFile, backedUp, fresh, cli, tasks, daemon, registry, reader>>

ParseHomebrew ==
    /\ parsed.tool = "none"
    /\ \E args \in ArgLists :
          parsed' = [tool |-> "homebrew", args |-> args,
                     record |-> HomebrewParseCommand(args), err |-> FALSE]
    /\ UNCHANGED <<svars, dvars, backupFile, backedUp, fresh, cli, tasks, daemon, registry, reader>>

NextParser == ParseNPM \/ ParseGo \/ ParseHomebrew

ParserSpec == Init /\ [][NextParser]_vars

\* the case labels of a tool's ParseCommand
Subcommands(tool) ==
    CASE tool = "npm" -> NPMSubcommands
      [] tool = "go" -> GoSubcommands
      [] tool = "homebrew" -> BrewSubcommands

Parsed == parsed.tool # "none"

\* C31: every parser returns, for every argument list, a record that carries
\* its tool's name, and no error; an empty list gives no metadata and no
\* affected packages; a first argument that is no known subcommand is recorded
\* as the subcommand, with no affected packages.
C31_ParsersNeverFail ==
    Parsed =>
       /\ ~parsed.err
       /\ parsed.record.Tool = parsed.tool
       /\ parsed.args = <<>> =>
             parsed.record.Metadata = EmptyMap /\ parsed.record.PackagesAffected = <<>>
       /\ (parsed.args # <<>> /\ parsed.args[1] \notin Subcommands(parsed.tool)) =>
             /\ HasKey(parsed.record.Metadata, "subcommand")
             /\ parsed.record.Metadata["subcommand"] = parsed.args[1]
             /\ parsed.record.PackagesAffected = <<>>

\* C31: the go parser was given a command line whose first argument it does
\* not know, followed by a package name.
C31_Witness ==
    /\ Parsed /\ parsed.tool = "go"
    /\ parsed.args = <<W("frob"), W("express")>>
    /\ parsed.record.Metadata["subcommand"] = W("frob")

\* the argument is taken as the value of the flag before it
RECURSIVE IsFlagValue(_, _)
IsFlagValue(args, i) ==
    i > 1 /\ args[i - 1] \in {Long("registry"), Long("scope"), Long("tag")}
          /\ ~IsFlagValue(args, i - 1)

\* a package spec without its version: what precedes the first "@" that is
\* not the scope marker
Stem(arg) ==
    LET from == IF HasPrefix(arg, "@") THEN 2 ELSE 1
        ats == {i \in from..Len(arg) : arg[i] = "@"}
    IN IF ats = {} THEN arg
       ELSE SubSeq(arg, 1, (CHOOSE i \in ats : \A j \in ats : i <= j) - 1)

\* the arguments at the chosen positions of a list, in order
RECURSIVE Pick(_, _, _)
Pick(args, i, keep) ==
    IF i > Len(args) THEN <<>>
    ELSE IF i \in keep THEN <<args[i]>> \o Pick(args, i + 1, keep)
         ELSE Pick(args, i + 1, keep)

NamedPackages(args) ==
    LET rest == Rest(args)
        kept == Pick(rest, 1, {i \in 1..Len(rest) :
                                   ~HasPrefix(rest[i], "-") /\ ~IsFlagValue(rest, i)})
    IN [i \in 1..Len(kept) |-> Stem(kept[i])]

\* C32: for npm install, uninstall and update the affected packages are, in
\* order, the arguments after the subcommand that are neither flags nor the
\* value of --registry, --scope or --tag, each without its @version suffix and
\* with its @scope/ kept.
C32_NPMPackagesWithoutVersions ==
    ( /\ Parsed /\ parsed.tool = "npm" /\ parsed.args # <<>>
      /\ parsed.args[1] \in NPMInstall \cup NPMUninstall \cup NPMUpdate )
        => parsed.record.PackagesAffected = NamedPackages(parsed.args)

\* C32: npm install was given a registry flag with its value, then a scoped
\* package with a version.
C32_Witness ==
    /\ Parsed /\ parsed.tool = "npm"
    /\ parsed.args = <<W("install"), Long("registry"), W("express")>>
       \/ parsed.args = <<W("install"), <<"@", "types", "/", "node", "@", "20">>,
                          <<"express", "@", "4">>>>
    /\ parsed.record.PackagesAffected \in
          {<<>>, <<<<"@", "types", "/", "node">>, W("express")>>}

PathTokens == {<<".">>, <<".", "/", ".", ".", ".">>, <<".", ".", ".">>}

\* C33 (as claimed): for go get, go install and go test the affected packages
\* are the arguments after the subcommand that are neither flags nor one of
\* ".", "./..." and "...", unchanged and in order.
C33_GoPathTokensAreNotPackages ==
    ( /\ Parsed /\ parsed.tool = "go" /\ parsed.args # <<>>
      /\ parsed.args[1] \in {W("get"), W("install"), W("test")} )
        => LET rest == Rest(parsed.args)
           IN parsed.record.PackagesAffected =
                 Pick(rest, 1, {i \in 1..Len(rest) :
                                  ~HasPrefix(rest[i], "-") /\ rest[i] \notin PathTokens})

\* C39 (as claimed): for brew upgrade the affected packages are the non-flag
\* arguments after the subcommand, and upgrade_all is recorded exactly when
\* there are none.
C39_BrewUpgradeAllOnlyWithoutPackages ==
    ( /\ Parsed /\ parsed.tool = "homebrew" /\ parsed.args # <<>>
      /\ parsed.args[1] = W("upgrade") )
        => LET rest == Rest(parsed.args)
               named == Pick(rest, 1, {i \in 1..Len(rest) : ~HasPrefix(rest[i], "-")})
           IN /\ parsed.record.PackagesAffected = named
              /\ HasKey(parsed.record.Metadata, "upgrade_all") <=> named = <<>>

(***************************************************************************)
(* UpdateStatistics over documents of up to MaxStatExecs executions.       *)
(***************************************************************************)
MaxStatExecs == 3

StatRecords == [ID : {"e"}, Tool : Tools, Timestamp : Times, PackagesAffected : {<<>>}]

\* the document after the records of a list were appended to the empty one
RECURSIVE Appending(_, _)
Appending(d, records) ==
    IF records = <<>> THEN d
    ELSE Appending(AddExecutionMem(d, Head(records)), Tail(records))

\* a storage engine that has appended and saved up to MaxStatExecs records
InitStatistics ==
    /\ \E records \in UNION {[1..n -> StatRecords] : n \in 0..MaxStatExecs} :
          /\ data = Appending(EmptyData, records)
          /\ fs = [live |-> FileOf(Marshal(data), TRUE), tmp |-> NoFile]
    /\ lastOp = [op |-> "AddExecution", arg |-> NoRec, done |-> TRUE, err |-> FALSE,
                 at |-> "idle"]
    /\ InitTasks
    /\ daemon = [state |-> "created", enabled |-> <<>>, failing |-> {}]
    /\ registry = NewMonitorRegistry

NextStatistics == CallUpdateStatistics \/ SaveStep

StatisticsSpec == InitStatistics /\ [][NextStatistics]_vars

UpdateStatisticsActs ==
    savePc = "idle" /\ savePc' = "writing" /\ lastOp'.op = "UpdateStatistics"

\* C40: UpdateStatistics sets most_active_day to a day no other day has more
\* stored executions than, to the empty day exactly when nothing is stored,
\* and changes nothing else of the document.
C40_MostActiveDayIsMaximal ==
    [][UpdateStatisticsActs =>
          LET execs == data.Executions
              day == data'.Statistics.MostActiveDay
          IN /\ day = NoDay <=> execs = <<>>
             /\ execs # <<>> =>
                   /\ DayCount(execs, day) > 0
                   /\ \A i \in 1..Len(execs) :
                         DayCount(execs, Day(execs[i].Timestamp)) <= DayCount(execs, day)
             /\ data' = [data EXCEPT !.Statistics.MostActiveDay = day]]_vars

\* C40: UpdateStatistics has run over three executions, two on one day and
\* one on another, and has set the day of the two.
C40_Witness ==
    /\ lastOp.op = "UpdateStatistics" /\ lastOp.done /\ ~lastOp.err
    /\ Len(data.Executions) = 3
    /\ \E dy \in {Day(t) : t \in Times} :
          /\ DayCount(data.Executions, dy) = 1
          /\ data.Statistics.MostActiveDay # dy
          /\ DayCount(data.Executions, data.Statistics.MostActiveDay) = 2

(***************************************************************************)
(* GetStatistics and the /stats handler. `stats := j.data.Statistics`      *)
(* copies the struct: the counters, the day and the slice header are the   *)
(* reader's own, the ExecutionFrequency map is the document's map.         *)
(***************************************************************************)
\* the map a StorageStatistics copy points to, as it is now
SharedFrequency == data.Statistics.ExecutionFrequency

\* what the holder of a copy reads from it
ReadThrough(copy, frequency) == [copy EXCEPT !.ExecutionFrequency = frequency]

\* GetStatistics, json.go lines 294-300, called by handleStats (daemon.go,
\* line 316); the read lock is released when it returns
StatsRead ==
    /\ CanRead
    /\ reader.pc = "none"
    /\ reader' = [pc |-> "holding", taken |-> data.Statistics]
    /\ UNCHANGED <<svars, dvars, backupFile, backedUp, fresh, cli, tasks, daemon,
                   registry, parsed>>

\* handleStats, line 323: the encoder begins to walk the value, no lock held
StatsEncodeBegin ==
    /\ reader.pc = "holding" /\ ~crashed
    /\ reader' = [pc |-> "encoding", taken |-> reader.taken, began |-> SharedFrequency]
    /\ UNCHANGED <<svars, dvars, backupFile, backedUp, fresh, cli, tasks, daemon,
                   registry, parsed>>

\* the encoder ends. When AddExecution wrote to the map meanwhile, the read
\* raced with the write: the reply holds the old or the new entries, or the
\* runtime ends the process (concurrent map iteration and map write)
StatsEncodeEnd ==
    /\ reader.pc = "encoding" /\ ~crashed
    /\ \E outcome \in {"old", "new", "fatal"} :
          /\ outcome # "new" => SharedFrequency # reader.began
          /\ crashed' = (outcome = "fatal")
          /\ reader' =
                [pc |-> IF outcome = "fatal" THEN "killed" ELSE "encoded",
                 taken |-> reader.taken,
                 encoded |-> ReadThrough(reader.taken,
                                         IF outcome = "new" THEN SharedFrequency
                                         ELSE reader.began)]
    /\ UNCHANGED <<svars, dvarsAlive, backupFile, backedUp, fresh, cli, tasks, daemon,
                   registry, parsed>>

NextSnapshot ==
    CallAddExecutionFew \/ SaveStep \/ StatsRead \/ StatsEncodeBegin \/ StatsEncodeEnd

SnapshotSpec == Init /\ [][NextSnapshot]_vars

\* C36 (as claimed): the statistics a reader was handed are a snapshot: what
\* the reader encodes is what GetStatistics returned, whatever was appended
\* meanwhile, and no read of the document's data races with a write.
C36_StatisticsIsASnapshot ==
    /\ reader.pc = "encoded" => reader.encoded = reader.taken
    /\ reader.pc # "killed"

(***************************************************************************)
(* Documents that parse and lack a part: json.Unmarshal leaves the zero    *)
(* value, which for a map is nil.                                          *)
(***************************************************************************)
LoadableFiles ==
    {FileOf(Marshal(AddExecutionMem(EmptyData, BackupRecord)), TRUE),
     \* no "packages"
     FileOf([executions |-> <<>>, statistics |-> Marshal(EmptyData).statistics], TRUE),
     \* no "execution_frequency"
     FileOf([executions |-> <<>>, packages |-> EmptyMap,
             statistics |-> [total_executions |-> 0, tools_used |-> <<>>,
                             most_active_day |-> NoDay]], TRUE),
     \* no "statistics"
     FileOf([executions |-> <<MarshalRecord(BackupRecord)>>, packages |-> EmptyMap], TRUE)}

CallRestoreLoadable ==
    /\ ~crashed
    /\ \E file \in LoadableFiles : Restore("caller", file)
    /\ UNCHANGED <<dvars, bvars>>

\* AddExecution, line 119: `ExecutionFrequency[record.Tool] = 0` on a nil map;
\* a nil map has no key, so the assignment is reached for every tool
WritesNilMap(d) == d.Statistics.ExecutionFrequency = NilMap

\* AddExecution on whatever document was loaded: lines 115-116 have run when
\* line 119 panics; the panic is not recovered
AddExecutionLoaded ==
    /\ LockFree /\ ~crashed
    /\ Len(data.Executions) < MaxExecs
    /\ \E record \in FewRecords :
          IF WritesNilMap(data)
          THEN /\ data' = [data EXCEPT
                             !.Executions = Append(@, WithID(record, "exec_gen")),
                             !.Statistics.TotalExecutions = @ + 1]
               /\ crashed' = TRUE
               /\ lastOp' = [op |-> "AddExecution", arg |-> WithID(record, "exec_gen"),
                             done |-> FALSE, err |-> FALSE, at |-> "idle"]
               /\ UNCHANGED <<fs, savePc, saveOwner, prevLive, dvarsAlive, bvars>>
          ELSE /\ AddExecution("caller", record)
               /\ UNCHANGED <<dvars, bvars>>

NextLoaded == CallRestoreLoadable \/ AddExecutionLoaded \/ SaveStep

LoadedSpec == Init /\ [][NextLoaded]_vars

\* C38 (as claimed): whatever parsable file was restored, no append crashes,
\* and an append that has completed leaves total_executions equal to the
\* length of the Executions list.
C38_AppendAfterAnyRestore ==
    /\ ~crashed
    /\ (lastOp.op = "AddExecution" /\ lastOp.done) =>
          data.Statistics.TotalExecutions = Len(data.Executions)

(***************************************************************************)
(* The order of Stop: wg.Wait, then storage.Close.                         *)
(***************************************************************************)
\* the step in which Stop calls d.storage.Close()
ClosesStorage == releases'.closeStorage > releases.closeStorage

\* d.storage.Close() has been called
CloseCalled == releases.closeStorage >= 1

\* the final flush has returned without error
Flushed == lastOp.op = "Close" /\ lastOp.done /\ ~lastOp.err

AppendedByConsumer == {data.Executions[i] : i \in 1..Len(data.Executions)}

InFile(f) == IF Parses(f) THEN {f.doc.executions[i] : i \in 1..Len(f.doc.executions)} ELSE {}

\* C34 (as claimed): Stop closes the storage engine only after the consumer
\* has terminated; no append runs during or after the final flush; the
\* flushed file holds every record the consumer appended.
C34_FlushAfterConsumer ==
    [][/\ ClosesStorage => consumerPc = "exited" /\ saveOwner # "consumer"
       /\ CloseCalled => data'.Executions = data.Executions
       /\ Flushed' => \A r \in AppendedByConsumer' : MarshalRecord(r) \in InFile(fs'.live)]_vars

(***************************************************************************)
(* The consumer and the order of the stored list.                          *)
(***************************************************************************)
\* Start, lines 88-89: `d.wg.Add(1); go d.processEvents()`, in the step in
\* which Start writes the PID file
LaunchesConsumer == pidFile' /\ ~pidFile /\ consumerPc' = "waiting"

\* the queue loses nothing but its oldest record and gains records at its end
QueueIsFIFO ==
    \/ eventChan' = eventChan
    \/ \E h \in Handlers : eventChan' = Append(eventChan, WireRecord(h))
    \/ /\ eventChan # <<>>
       /\ \/ eventChan' = Tail(eventChan)
          \/ \E h \in Handlers : eventChan' = Append(Tail(eventChan), WireRecord(h))

\* the stored list grows by the queue's oldest record, at its end
StoresOldest ==
    data'.Executions # data.Executions =>
        /\ eventChan # <<>>
        /\ data'.Executions = Append(data.Executions, Head(eventChan))
        /\ \/ eventChan' = Tail(eventChan)
           \/ \E h \in Handlers : eventChan' = Append(Tail(eventChan), WireRecord(h))

AppendFailed == lastOp.op = "AddExecution" /\ lastOp.done /\ lastOp.err

\* the step in which the consumer's AddExecution returns an error
AppendFails == saveOwner = "consumer" /\ saveOwner' = "none" /\ lastOp'.err

\* C37: the failure of one append does not end the consumer: the step in
\* which AddExecution returns its error changes neither the consumer nor the
\* daemon's state, and afterwards the consumer, unless Stop has been requested
\* meanwhile, receives the next queued record and appends it.
C37_FailedAppendDoesNotStopConsumer ==
    /\ [][AppendFails => /\ consumerPc' = "waiting"
                         /\ UNCHANGED <<started, stopped, ctxCancelled, chanClosed,
                                        crashed, eventChan, stopPc>>]_vars
    /\ [](AppendFailed /\ ~crashed /\ eventChan # <<>> /\ consumerPc = "waiting"
            => ENABLED ConsumerReceive)

\* C37: an append has failed while the daemon runs and another record waits in
\* the queue.
C37_Witness ==
    /\ AppendFailed
    /\ started /\ ~stopped /\ ~crashed
    /\ consumerPc = "waiting"
    /\ eventChan # <<>>

====
